---- MODULE Spec2Model ----
(***************************************************************************)
(* Model of the Rails-schema to TypeSpec converter (hirssan/astTest):      *)
(* the type mapper, the document renderer, the schema-model builder of the *)
(* primary (Prism) path and the Ruby (Ripper) fallback path of             *)
(* src/src/parsers/schemaParser.ts.                                        *)
(*                                                                         *)
(* Strings are sequences of one-character strings, so that case            *)
(* conversion, regular-expression replacement, splitting and joining are   *)
(* computed character by character as the code computes them.              *)
(* JavaScript values are records [t, b, n, s, a, o] where t is the value's *)
(* typeof tag ("undefined", "null", "boolean", "number", "string",         *)
(* "array", "object"); objects are association lists of <<key, value>> in  *)
(* insertion order.                                                        *)
(***************************************************************************)
EXTENDS Integers, Sequences, FiniteSets, TLC

VARIABLES
    prismParse,      \* TRUE when @ruby/prism's parse function was loaded (schemaParser.ts:124)
    prismLoadError,  \* the load error's message (a string value) or Null (schemaParser.ts:124)
    invoked,         \* the backends invoked since the module was loaded, in order
    op,              \* the operation that ran last ("none" before the first one)
    arg,             \* its argument
    ret              \* its result

vars == <<prismParse, prismLoadError, invoked, op, arg, ret>>

(***************************************************************************)
(* Characters and strings                                                  *)
(***************************************************************************)
LowerLetters == <<"a","b","c","d","e","f","g","h","i","j","k","l","m","n","o","p","q","r","s","t","u","v","w","x","y","z">>
UpperLetters == <<"A","B","C","D","E","F","G","H","I","J","K","L","M","N","O","P","Q","R","S","T","U","V","W","X","Y","Z">>
DigitChars == <<"0","1","2","3","4","5","6","7","8","9">>

Range(f) == {f[i] : i \in DOMAIN f}

IndexIn(seq, c) == IF \E i \in DOMAIN seq : seq[i] = c THEN CHOOSE i \in DOMAIN seq : seq[i] = c ELSE 0

IsLower(c) == c \in Range(LowerLetters)
IsUpper(c) == c \in Range(UpperLetters)
IsDigit(c) == c \in Range(DigitChars)
IsAlnum(c) == IsLower(c) \/ IsUpper(c) \/ IsDigit(c)
\* JavaScript's \s restricted to the characters of the model
IsSpace(c) == c \in {" ", "\t", "\n"}

toLowerCaseChar(c) == IF IsUpper(c) THEN LowerLetters[IndexIn(UpperLetters, c)] ELSE c
toUpperCaseChar(c) == IF IsLower(c) THEN UpperLetters[IndexIn(LowerLetters, c)] ELSE c

\* String.prototype.toLowerCase / toUpperCase
toLowerCase(s) == [i \in 1..Len(s) |-> toLowerCaseChar(s[i])]
toUpperCase(s) == [i \in 1..Len(s) |-> toUpperCaseChar(s[i])]

RECURSIVE Flatten(_)
\* Array.prototype.join('') of an array of strings
Flatten(ss) == IF ss = <<>> THEN <<>> ELSE Head(ss) \o Flatten(Tail(ss))

RECURSIVE JoinWith(_, _)
\* Array.prototype.join(sep) of an array of strings
JoinWith(ss, sep) ==
    IF ss = <<>> THEN <<>>
    ELSE IF Len(ss) = 1 THEN ss[1]
    ELSE ss[1] \o sep \o JoinWith(Tail(ss), sep)

(***************************************************************************)
(* JavaScript values                                                       *)
(***************************************************************************)
Undefined == [t |-> "undefined", b |-> FALSE, n |-> 0, s |-> <<>>, a |-> <<>>, o |-> <<>>]
Null      == [t |-> "null",      b |-> FALSE, n |-> 0, s |-> <<>>, a |-> <<>>, o |-> <<>>]
Bool(x)   == [t |-> "boolean",   b |-> x,     n |-> 0, s |-> <<>>, a |-> <<>>, o |-> <<>>]
Num(x)    == [t |-> "number",    b |-> FALSE, n |-> x, s |-> <<>>, a |-> <<>>, o |-> <<>>]
Str(x)    == [t |-> "string",    b |-> FALSE, n |-> 0, s |-> x,    a |-> <<>>, o |-> <<>>]
Arr(x)    == [t |-> "array",     b |-> FALSE, n |-> 0, s |-> <<>>, a |-> x,    o |-> <<>>]
Obj(x)    == [t |-> "object",    b |-> FALSE, n |-> 0, s |-> <<>>, a |-> <<>>, o |-> x]

\* typeof v === 'string' etc.; Array.isArray(v)
IsString(v) == v.t = "string"
IsArray(v)  == v.t = "array"
\* v === null || v === undefined, the test of the ?? operator
IsNullish(v) == v.t \in {"undefined", "null"}
\* the ?? operator
Coalesce(v, w) == IF IsNullish(v) THEN w ELSE v

\* ToBoolean: undefined, null, false, 0 and '' are falsy
Truthy(v) ==
    CASE v.t = "undefined" -> FALSE
      [] v.t = "null"      -> FALSE
      [] v.t = "boolean"   -> v.b
      [] v.t = "number"    -> v.n # 0
      [] v.t = "string"    -> v.s # <<>>
      [] OTHER             -> TRUE

\* property read obj[key] of an object (an association list); undefined when absent
Get(obj, key) ==
    IF obj.t = "object" /\ \E i \in DOMAIN obj.o : obj.o[i][1] = key
    THEN obj.o[CHOOSE i \in DOMAIN obj.o : obj.o[i][1] = key][2]
    ELSE Undefined

\* property write obj[key] = value: overwrite in place, or append a new key
Put(obj, key, value) ==
    IF \E i \in DOMAIN obj.o : obj.o[i][1] = key
    THEN Obj([i \in DOMAIN obj.o |-> IF obj.o[i][1] = key THEN <<key, value>> ELSE obj.o[i]])
    ELSE Obj(Append(obj.o, <<key, value>>))

(***************************************************************************)
(* Type mapper                                                             *)
(***************************************************************************)
\* the entries of the Map, in source order:
\*   string       -> string
\*   text         -> string
\*   citext       -> string
\*   uuid         -> string
\*   integer      -> int32
\*   int          -> int32
\*   bigint       -> int64
\*   float        -> float64
\*   decimal      -> decimal
\*   numeric      -> decimal
\*   boolean      -> boolean
\*   datetime     -> utcDateTime
\*   timestamp    -> utcDateTime
\*   timestamptz  -> utcDateTime
\*   date         -> plainDate
\*   time         -> plainTime
\*   binary       -> bytes
\*   json         -> Record<string, unknown>
\*   jsonb        -> Record<string, unknown>
TYPESPEC_TYPE_BY_RAILS_TYPE == <<
    <<<<"s","t","r","i","n","g">>, <<"s","t","r","i","n","g">>>>,
    <<<<"t","e","x","t">>, <<"s","t","r","i","n","g">>>>,
    <<<<"c","i","t","e","x","t">>, <<"s","t","r","i","n","g">>>>,
    <<<<"u","u","i","d">>, <<"s","t","r","i","n","g">>>>,
    <<<<"i","n","t","e","g","e","r">>, <<"i","n","t","3","2">>>>,
    <<<<"i","n","t">>, <<"i","n","t","3","2">>>>,
    <<<<"b","i","g","i","n","t">>, <<"i","n","t","6","4">>>>,
    <<<<"f","l","o","a","t">>, <<"f","l","o","a","t","6","4">>>>,
    <<<<"d","e","c","i","m","a","l">>, <<"d","e","c","i","m","a","l">>>>,
    <<<<"n","u","m","e","r","i","c">>, <<"d","e","c","i","m","a","l">>>>,
    <<<<"b","o","o","l","e","a","n">>, <<"b","o","o","l","e","a","n">>>>,
    <<<<"d","a","t","e","t","i","m","e">>, <<"u","t","c","D","a","t","e","T","i","m","e">>>>,
    <<<<"t","i","m","e","s","t","a","m","p">>, <<"u","t","c","D","a","t","e","T","i","m","e">>>>,
    <<<<"t","i","m","e","s","t","a","m","p","t","z">>, <<"u","t","c","D","a","t","e","T","i","m","e">>>>,
    <<<<"d","a","t","e">>, <<"p","l","a","i","n","D","a","t","e">>>>,
    <<<<"t","i","m","e">>, <<"p","l","a","i","n","T","i","m","e">>>>,
    <<<<"b","i","n","a","r","y">>, <<"b","y","t","e","s">>>>,
    <<<<"j","s","o","n">>, <<"R","e","c","o","r","d","<","s","t","r","i","n","g",","," ","u","n","k","n","o","w","n",">">>>>,
    <<<<"j","s","o","n","b">>, <<"R","e","c","o","r","d","<","s","t","r","i","n","g",","," ","u","n","k","n","o","w","n",">">>>>
>>
S_enum == <<"e","n","u","m">>
S_references == <<"r","e","f","e","r","e","n","c","e","s">>
S_belongs_to == <<"b","e","l","o","n","g","s","_","t","o">>
S_foreign_key == <<"f","o","r","e","i","g","n","_","k","e","y">>
S_string == <<"s","t","r","i","n","g">>
S_unknown == <<"u","n","k","n","o","w","n">>
S_int64 == <<"i","n","t","6","4">>
S_polymorphic == <<"p","o","l","y","m","o","r","p","h","i","c">>
S_null == <<"n","u","l","l">>
S_default == <<"d","e","f","a","u","l","t">>
S_limit == <<"l","i","m","i","t">>

\* Map.prototype.get: the value of the first entry with this key, or undefined
MapGet(map, key) ==
    IF \E i \in DOMAIN map : map[i][1] = key
    THEN Str(map[CHOOSE i \in DOMAIN map : map[i][1] = key][2])
    ELSE Undefined

\* Mutant: the type tag is looked up without lowercasing.
inferTypespecType_NoLowerCase(column) ==
    LET normalized == column.type IN
    IF normalized = S_enum THEN Coalesce(column.enumName, Str(S_string))
    ELSE IF normalized \in {S_references, S_belongs_to, S_foreign_key}
    THEN IF Truthy(Get(column.options, S_polymorphic)) THEN Str(S_unknown) ELSE Str(S_int64)
    ELSE Coalesce(MapGet(TYPESPEC_TYPE_BY_RAILS_TYPE, normalized), Str(S_unknown))

\* Mutant: a tag that is not in the table falls back to 'string'.
inferTypespecType_DefaultString(column) ==
    LET normalized == toLowerCase(column.type) IN
    IF normalized = S_enum THEN Coalesce(column.enumName, Str(S_string))
    ELSE IF normalized \in {S_references, S_belongs_to, S_foreign_key}
    THEN IF Truthy(Get(column.options, S_polymorphic)) THEN Str(S_unknown) ELSE Str(S_int64)
    ELSE Coalesce(MapGet(TYPESPEC_TYPE_BY_RAILS_TYPE, normalized), Str(S_string))

\* inferTypespecType(column): a column is [name, type, options, enumName], name and
\* type strings, options an object, enumName a value (undefined when not set)
inferTypespecType(column) ==
    LET normalized == toLowerCase(column.type) IN
    IF normalized = S_enum THEN Coalesce(column.enumName, Str(S_string))
    ELSE IF normalized \in {S_references, S_belongs_to, S_foreign_key}
    THEN IF Truthy(Get(column.options, S_polymorphic)) THEN Str(S_unknown) ELSE Str(S_int64)
    ELSE Coalesce(MapGet(TYPESPEC_TYPE_BY_RAILS_TYPE, normalized), Str(S_unknown))

(***************************************************************************)
(* Module load: the backend is selected once, when the module is loaded.   *)
(***************************************************************************)
\* the messages a failed load can carry, each fixed text kept as one symbol: the
\* message of line 137 (Japanese in the source: "no parse function was found in
\* @ruby/prism") and the message of a failed import()
LoadErrorMessages == {
    <<"@ruby/prism: parse function not found">>,
    <<"Cannot find package '@ruby/prism'">> }

\* loadPrismParser: either the parse function, or null and the error
loadPrismParser ==
    \/ prismParse = TRUE /\ prismLoadError = Null
    \/ prismParse = FALSE /\ prismLoadError \in {Str(m) : m \in LoadErrorMessages}

(***************************************************************************)
(* Specification of the type mapper: inferTypespecType applied to columns  *)
(* drawn from bounded sets.                                                *)
(***************************************************************************)
MaxTagLen == 3

RECURSIVE StringsUpTo(_, _)
\* all strings over an alphabet of at most n characters
StringsUpTo(alphabet, n) ==
    IF n = 0 THEN {<<>>}
    ELSE LET shorter == StringsUpTo(alphabet, n - 1)
         IN  shorter \cup {Append(s, c) : s \in shorter, c \in alphabet}

Capitalize(s) == IF s = <<>> THEN s ELSE <<toUpperCaseChar(s[1])>> \o Tail(s)

\* the tags of the table and the special tags, plus tags the code does not know
NamedTags ==
    {TYPESPEC_TYPE_BY_RAILS_TYPE[i][1] : i \in DOMAIN TYPESPEC_TYPE_BY_RAILS_TYPE}
    \cup {S_enum, S_references, S_belongs_to, S_foreign_key}
    \cup {<<"m","o","n","e","y">>, <<"s","t","r","i","n","g","s">>, <<"e","n","u","m","s">>}

TypeTags ==
    NamedTags \cup {toUpperCase(s) : s \in NamedTags} \cup {Capitalize(s) : s \in NamedTags}
    \cup StringsUpTo({"i", "n", "t", "I"}, MaxTagLen)

PolymorphicValues ==
    {Undefined, Null, Bool(TRUE), Bool(FALSE), Num(0), Num(1), Str(<<>>), Str(<<"y","e","s">>)}

\* options objects over the keys polymorphic and null; an undefined value stands
\* for an absent key
TypeOptions ==
    { Obj((IF p = Undefined THEN <<>> ELSE << <<S_polymorphic, p>> >>)
          \o (IF n = Undefined THEN <<>> ELSE << <<S_null, n>> >>))
      : p \in PolymorphicValues, n \in {Undefined, Bool(FALSE)} }

TypeColumns ==
    [ name : {<<"i","d">>, <<"u","s","e","r","N","a","m","e">>},
      type : TypeTags,
      options : TypeOptions,
      enumName : {Undefined, Str(<<"S","t","a","t","u","s">>)} ]

\* The type mapper reads neither prismParse nor prismLoadError: the backend is
\* fixed here. The column is drawn by Init and mapped by the one action.
TypeInit ==
    /\ prismParse = TRUE /\ prismLoadError = Null /\ invoked = <<>>
    /\ op = "none" /\ arg \in TypeColumns /\ ret = Undefined

InferType ==
    /\ op = "none"
    /\ op' = "inferTypespecType"
    /\ ret' = inferTypespecType(arg)
    /\ UNCHANGED <<prismParse, prismLoadError, invoked, arg>>

TypeNext == InferType

SpecTypeMapper == TypeInit /\ [][TypeNext]_vars

\* The mapping the specification lists for the tags of the lookup table.
ListedTypes == <<
    <<<<"s","t","r","i","n","g">>, <<"s","t","r","i","n","g">>>>,
    <<<<"t","e","x","t">>, <<"s","t","r","i","n","g">>>>,
    <<<<"i","n","t","e","g","e","r">>, <<"i","n","t","3","2">>>>,
    <<<<"i","n","t">>, <<"i","n","t","3","2">>>>,
    <<<<"b","i","g","i","n","t">>, <<"i","n","t","6","4">>>>,
    <<<<"f","l","o","a","t">>, <<"f","l","o","a","t","6","4">>>>,
    <<<<"d","e","c","i","m","a","l">>, <<"d","e","c","i","m","a","l">>>>,
    <<<<"n","u","m","e","r","i","c">>, <<"d","e","c","i","m","a","l">>>>,
    <<<<"b","o","o","l","e","a","n">>, <<"b","o","o","l","e","a","n">>>>,
    <<<<"d","a","t","e","t","i","m","e">>, <<"u","t","c","D","a","t","e","T","i","m","e">>>>,
    <<<<"t","i","m","e","s","t","a","m","p">>, <<"u","t","c","D","a","t","e","T","i","m","e">>>>,
    <<<<"t","i","m","e","s","t","a","m","p","t","z">>, <<"u","t","c","D","a","t","e","T","i","m","e">>>>,
    <<<<"d","a","t","e">>, <<"p","l","a","i","n","D","a","t","e">>>>,
    <<<<"t","i","m","e">>, <<"p","l","a","i","n","T","i","m","e">>>>,
    <<<<"b","i","n","a","r","y">>, <<"b","y","t","e","s">>>>,
    <<<<"j","s","o","n">>, <<"R","e","c","o","r","d","<","s","t","r","i","n","g",","," ","u","n","k","n","o","w","n",">">>>>,
    <<<<"j","s","o","n","b">>, <<"R","e","c","o","r","d","<","s","t","r","i","n","g",","," ","u","n","k","n","o","w","n",">">>>>
>>

ListedTags == {ListedTypes[i][1] : i \in DOMAIN ListedTypes}
SpecialTags == {S_enum, S_references, S_belongs_to, S_foreign_key}
ReferenceTags == {S_references, S_belongs_to, S_foreign_key}

\* C1: for every tag of the listed lookup table, written in any letter case,
\* inferTypespecType returns the listed target type, whatever the column's name,
\* options and enumName are.
C1_ListedTagsMapped ==
    op = "inferTypespecType" =>
        \A i \in DOMAIN ListedTypes :
            toLowerCase(arg.type) = ListedTypes[i][1] => ret = Str(ListedTypes[i][2])

\* C1 witness: an upper-case tag of a column that has options and an enumName.
C1_Witness ==
    /\ op = "inferTypespecType"
    /\ arg.type = <<"J","S","O","N","B">>
    /\ arg.enumName # Undefined
    /\ Get(arg.options, S_polymorphic) = Bool(TRUE)
    /\ ret = Str(<<"R","e","c","o","r","d","<","s","t","r","i","n","g",","," ","u","n","k","n","o","w","n",">">>)

\* C2 (as claimed): a references, belongs_to or foreign_key column maps to
\* 'unknown' exactly when options.polymorphic is the boolean true, and to 'int64'
\* for every other value of options.polymorphic.
C2_PolymorphicStrictlyTrue ==
    (op = "inferTypespecType" /\ toLowerCase(arg.type) \in ReferenceTags) =>
        IF Get(arg.options, S_polymorphic) = Bool(TRUE)
        THEN ret = Str(S_unknown)
        ELSE ret = Str(S_int64)

\* C9 (as claimed): every tag that is neither a listed tag nor a special tag maps
\* to 'unknown'.
C9_UnlistedTagsUnknown ==
    (op = "inferTypespecType" /\ toLowerCase(arg.type) \notin (ListedTags \cup SpecialTags)) =>
        ret = Str(S_unknown)

\* C9 (amended): every tag that is neither a listed tag, nor citext, nor uuid, nor
\* a special tag maps to 'unknown'; citext and uuid map to 'string'; the result is
\* always a value (the mapping raises no error).
C9_UnknownTagsUnknown ==
    op = "inferTypespecType" =>
        /\ toLowerCase(arg.type) \notin
              (ListedTags \cup SpecialTags \cup {<<"c","i","t","e","x","t">>, <<"u","u","i","d">>})
           => ret = Str(S_unknown)
        /\ toLowerCase(arg.type) \in {<<"c","i","t","e","x","t">>, <<"u","u","i","d">>}
           => ret = Str(S_string)
        /\ ret.t \in {"string", "undefined", "null", "boolean", "number", "array", "object"}

\* C9 witness: a tag unknown to the code, and an empty tag, has been mapped.
C9_Witness ==
    /\ op = "inferTypespecType"
    /\ arg.type = <<"M","o","n","e","y">>
    /\ ret = Str(S_unknown)

(***************************************************************************)
(* Enum renderer                                                           *)
(***************************************************************************)
RECURSIVE trimStart(_)
trimStart(s) == IF s # <<>> /\ IsSpace(Head(s)) THEN trimStart(Tail(s)) ELSE s

RECURSIVE trimEnd(_)
trimEnd(s) == IF s # <<>> /\ IsSpace(s[Len(s)]) THEN trimEnd(SubSeq(s, 1, Len(s) - 1)) ELSE s

\* String.prototype.trim
trim(s) == trimEnd(trimStart(s))

RECURSIVE ReplaceNonAlnumRuns(_)
\* s.replace(/[^A-Za-z0-9]+/g, '_'): every maximal run of characters that are not
\* letters or digits is replaced by one underscore
ReplaceNonAlnumRuns(s) ==
    IF s = <<>> THEN <<>>
    ELSE IF ~IsAlnum(Head(s))
         THEN IF Len(s) > 1 /\ ~IsAlnum(s[2])
              THEN ReplaceNonAlnumRuns(Tail(s))
              ELSE <<"_">> \o ReplaceNonAlnumRuns(Tail(s))
         ELSE <<Head(s)>> \o ReplaceNonAlnumRuns(Tail(s))

RECURSIVE StripLeadingUnderscores(_)
StripLeadingUnderscores(s) ==
    IF s # <<>> /\ Head(s) = "_" THEN StripLeadingUnderscores(Tail(s)) ELSE s

RECURSIVE StripTrailingUnderscores(_)
StripTrailingUnderscores(s) ==
    IF s # <<>> /\ s[Len(s)] = "_" THEN StripTrailingUnderscores(SubSeq(s, 1, Len(s) - 1)) ELSE s

\* s.replace(/^_+|_+$/g, '')
StripUnderscores(s) == StripTrailingUnderscores(StripLeadingUnderscores(s))

RECURSIVE CollapseUnderscores(_)
\* s.replace(/_{2,}/g, '_')
CollapseUnderscores(s) ==
    IF Len(s) < 2 THEN s
    ELSE IF s[1] = "_" /\ s[2] = "_" THEN CollapseUnderscores(Tail(s))
    ELSE <<Head(s)>> \o CollapseUnderscores(Tail(s))

\* Mutant: the leading-digit test reads the input instead of the sanitized text.
normalizeEnumMemberName_TestsInput(value) ==
    IF value = <<>> THEN Undefined
    ELSE LET sanitized ==
                 CollapseUnderscores(StripUnderscores(ReplaceNonAlnumRuns(trim(value))))
             prefixed == IF value # <<>> /\ IsDigit(value[1]) THEN <<"_">> \o sanitized ELSE sanitized
         IN  IF sanitized = <<>> THEN Undefined ELSE Str(toUpperCase(prefixed))

\* normalizeEnumMemberName(value): a string value, or undefined
normalizeEnumMemberName(value) ==
    IF value = <<>> THEN Undefined
    ELSE LET sanitized ==
                 CollapseUnderscores(StripUnderscores(ReplaceNonAlnumRuns(trim(value))))
             prefixed == IF sanitized # <<>> /\ IsDigit(sanitized[1]) THEN <<"_">> \o sanitized ELSE sanitized
         IN  IF sanitized = <<>> THEN Undefined ELSE Str(toUpperCase(prefixed))

\* the member line of one value: `  ${memberName}: "${value}";`
EnumMemberLine(memberName, value) ==
    <<" "," ">> \o memberName \o <<":"," ","\"">> \o value \o <<"\"",";">>

RECURSIVE EnumMemberLines(_)
\* the loop of renderEnum: a value whose member name is undefined is skipped
EnumMemberLines(values) ==
    IF values = <<>> THEN <<>>
    ELSE LET memberName == normalizeEnumMemberName(Head(values))
         IN  (IF ~Truthy(memberName) THEN <<>> ELSE <<EnumMemberLine(memberName.s, Head(values))>>)
             \o EnumMemberLines(Tail(values))

RECURSIVE EnumMemberLines_NoSkip(_)
EnumMemberLines_NoSkip(values) ==
    IF values = <<>> THEN <<>>
    ELSE LET memberName == normalizeEnumMemberName(Head(values))
         IN  <<EnumMemberLine(IF Truthy(memberName) THEN memberName.s ELSE <<"u","n","d","e","f","i","n","e","d">>, Head(values))>>
             \o EnumMemberLines_NoSkip(Tail(values))

\* Mutant: the loop lacks `if (!memberName) continue`.
renderEnum_NoSkip(enumDefinition) ==
    JoinWith(<<S_enum \o <<" ">> \o enumDefinition.className \o <<" ","{">>>>
             \o EnumMemberLines_NoSkip(enumDefinition.values) \o << <<"}">> >>, <<"\n">>)

\* renderEnum(enumDefinition): an enum definition is [name, className, values]
renderEnum(enumDefinition) ==
    JoinWith(<<S_enum \o <<" ">> \o enumDefinition.className \o <<" ","{">>>>
             \o EnumMemberLines(enumDefinition.values) \o << <<"}">> >>, <<"\n">>)

(***************************************************************************)
(* Specification of the enum renderer: normalizeEnumMemberName applied to  *)
(* a string and then to its own result, and renderEnum applied to an enum  *)
(* definition.                                                             *)
(***************************************************************************)
MaxValueLen == 4
MaxEnumValues == 3

MemberAlphabet == {"a", "B", "1", "_", " ", "-"}
MemberInputs == StringsUpTo(MemberAlphabet, MaxValueLen)

RECURSIVE SeqsUpTo(_, _)
\* all sequences of at most n elements of S
SeqsUpTo(S, n) ==
    IF n = 0 THEN {<<>>}
    ELSE LET shorter == SeqsUpTo(S, n - 1)
         IN  shorter \cup {Append(q, x) : q \in shorter, x \in S}

\* enum values: plain, empty, normalizing to empty, starting with a digit, with a
\* space and upper case, with a quote
EnumValues == {
    <<"d","r","a","f","t">>, <<>>, <<"-","-">>, <<"1","s","t">>,
    <<" ","I","n"," ","r","e","v","i","e","w">>, <<"a","\"","b">> }

EnumDefinitions ==
    [ name : {<<"s","t","a","t","u","s">>},
      className : {<<"S","t","a","t","u","s">>},
      values : SeqsUpTo(EnumValues, MaxEnumValues) ]

EnumInit ==
    /\ prismParse = TRUE /\ prismLoadError = Null /\ invoked = <<>>
    /\ op = "none" /\ ret = Undefined
    /\ arg \in {Str(s) : s \in MemberInputs} \cup EnumDefinitions

NormalizeMember ==
    /\ op = "none" /\ arg \in {Str(s) : s \in MemberInputs}
    /\ op' = "normalizeEnumMemberName"
    /\ ret' = normalizeEnumMemberName(arg.s)
    /\ UNCHANGED <<prismParse, prismLoadError, invoked, arg>>

\* the member name just produced is normalized once more
NormalizeMemberAgain ==
    /\ op = "normalizeEnumMemberName" /\ IsString(ret)
    /\ op' = "normalizeEnumMemberName again"
    /\ arg' = ret
    /\ ret' = normalizeEnumMemberName(ret.s)
    /\ UNCHANGED <<prismParse, prismLoadError, invoked>>

RenderEnum ==
    /\ op = "none" /\ arg \in EnumDefinitions
    /\ op' = "renderEnum"
    /\ ret' = Str(renderEnum(arg))
    /\ UNCHANGED <<prismParse, prismLoadError, invoked, arg>>

EnumNext == NormalizeMember \/ NormalizeMemberAgain \/ RenderEnum

SpecEnum == EnumInit /\ [][EnumNext]_vars

RECURSIVE SplitOn(_, _)
\* String.prototype.split(c) for a one-character separator
SplitOn(s, c) ==
    IF \E i \in DOMAIN s : s[i] = c
    THEN LET i == CHOOSE k \in DOMAIN s : s[k] = c /\ \A j \in 1..(k - 1) : s[j] # c
         IN  <<SubSeq(s, 1, i - 1)>> \o SplitOn(SubSeq(s, i + 1, Len(s)), c)
    ELSE <<s>>

\* C5: normalizeEnumMemberName is idempotent: a member name it returned is
\* returned unchanged when it is normalized again.
C5_NormalizeIdempotent ==
    op = "normalizeEnumMemberName again" => ret = arg

\* C5 witness: a name that got the leading underscore of a leading digit was
\* normalized again.
C5_Witness ==
    /\ op = "normalizeEnumMemberName again"
    /\ arg = Str(<<"_","1","A","_","B">>)
    /\ ret = arg

IsMemberValue(v) == normalizeEnumMemberName(v) # Undefined

\* C8: renderEnum emits 'enum <className> {', then one line per value whose
\* member name is non-empty, in the order of the values, each pairing the member
\* name with the unmodified value in quotes, then '}'.
C8_RenderEnumLines ==
    op = "renderEnum" =>
        LET lines == SplitOn(ret.s, "\n")
            kept == SelectSeq(arg.values, IsMemberValue)
        IN  /\ Len(lines) = Len(kept) + 2
            /\ lines[1] = <<"e","n","u","m"," ">> \o arg.className \o <<" ","{">>
            /\ lines[Len(lines)] = <<"}">>
            /\ \A i \in DOMAIN kept :
                   lines[i + 1] = <<" "," ">> \o normalizeEnumMemberName(kept[i]).s
                                  \o <<":"," ","\"">> \o kept[i] \o <<"\"",";">>

\* C8 witness: an enum with a value that normalizes to empty between two values
\* that do not was rendered.
C8_Witness ==
    /\ op = "renderEnum"
    /\ arg.values = << <<"d","r","a","f","t">>, <<"-","-">>, <<"1","s","t">> >>
    /\ Len(SplitOn(ret.s, "\n")) = 4

(***************************************************************************)
(* Model renderer                                                          *)
(***************************************************************************)
RECURSIVE NatToString(_)
\* the decimal digits of a natural number
NatToString(n) ==
    IF n < 10 THEN <<DigitChars[n + 1]>> ELSE NatToString(n \div 10) \o <<DigitChars[(n % 10) + 1]>>

RECURSIVE StringOf(_)
\* String(value), also the conversion of `${value}` in a template literal
StringOf(v) ==
    CASE v.t = "undefined" -> <<"u","n","d","e","f","i","n","e","d">>
      [] v.t = "null"      -> <<"n","u","l","l">>
      [] v.t = "boolean"   -> IF v.b THEN <<"t","r","u","e">> ELSE <<"f","a","l","s","e">>
      [] v.t = "number"    -> IF v.n < 0 THEN <<"-">> \o NatToString(-v.n) ELSE NatToString(v.n)
      [] v.t = "string"    -> v.s
      [] v.t = "array"     ->
            JoinWith([i \in DOMAIN v.a |-> IF IsNullish(v.a[i]) THEN <<>> ELSE StringOf(v.a[i])], <<",">>)
      [] OTHER             -> <<"[","o","b","j","e","c","t"," ","O","b","j","e","c","t","]">>

RECURSIVE InsertUnderscores(_)
\* name.replace(/([a-z0-9])([A-Z])/g, '$1_$2'): the matches are found from left to
\* right and do not overlap; the search resumes after the two matched characters
InsertUnderscores(s) ==
    IF Len(s) < 2 THEN s
    ELSE IF (IsLower(s[1]) \/ IsDigit(s[1])) /\ IsUpper(s[2])
         THEN <<s[1], "_", s[2]>> \o InsertUnderscores(SubSeq(s, 3, Len(s)))
         ELSE <<s[1]>> \o InsertUnderscores(Tail(s))

\* Mutant: the trailing toLowerCase() is missing.
snakeCase_NoLowerCase(name) == InsertUnderscores(name)

\* snakeCase(name)
snakeCase(name) == toLowerCase(InsertUnderscores(name))

\* the @doc decorators of a column, default before limit
ColumnDecorators(column) ==
    (IF Get(column.options, S_default).t # "undefined"
     THEN << <<"@","d","o","c","(","\"","d","e","f","a","u","l","t",":"," ">> \o StringOf(Get(column.options, S_default)) \o <<"\"",")">> >>
     ELSE <<>>)
    \o
    (IF Get(column.options, S_limit).t # "undefined"
     THEN << <<"@","d","o","c","(","\"","l","i","m","i","t",":"," ">> \o StringOf(Get(column.options, S_limit)) \o <<"\"",")">> >>
     ELSE <<>>)

\* Mutant: the flag is decided by the truthiness of options.null.
OptionalFlag_Truthy(column) == IF Truthy(Get(column.options, S_null)) THEN <<"?">> ELSE <<>>

\* column.options?.null !== false ? '?' : ''
OptionalFlag(column) == IF Get(column.options, S_null) # Bool(FALSE) THEN <<"?">> ELSE <<>>

\* the lines pushed for one column: its decorators, indented, then the field line
ColumnLines(column) ==
    [i \in DOMAIN ColumnDecorators(column) |-> <<" "," ">> \o ColumnDecorators(column)[i]]
    \o << <<" "," ">> \o snakeCase(column.name) \o OptionalFlag(column)
          \o <<":"," ">> \o StringOf(inferTypespecType(column)) \o <<";">> >>

RECURSIVE ModelLines(_)
ModelLines(columns) ==
    IF columns = <<>> THEN <<>> ELSE ColumnLines(Head(columns)) \o ModelLines(Tail(columns))

\* renderModel(table): a table is [name, className, columns]
renderModel(table) ==
    JoinWith(<< <<"m","o","d","e","l"," ">> \o table.className \o <<" ","{">> >>
             \o ModelLines(table.columns) \o << <<"}">> >>, <<"\n">>)

(***************************************************************************)
(* Specification of the model renderer: renderModel applied to tables      *)
(* drawn from bounded sets.                                                *)
(***************************************************************************)
MaxNameLen == 3
MaxColumns == 2

NameAlphabet == {"a", "B", "1", "_"}

ColumnNames ==
    (StringsUpTo(NameAlphabet, MaxNameLen) \ {<<>>})
    \cup {<<"u","s","e","r","N","a","m","e">>, <<"I","D">>, <<"c","r","e","a","t","e","d","_","a","t">>}

\* values of options.null: absent, the booleans, and values that are not booleans
NullValues == {Undefined, Null, Bool(FALSE), Bool(TRUE), Num(0), Str(<<>>), Str(<<"f","a","l","s","e">>)}
DefaultValues == {Undefined, Null, Bool(TRUE), Num(25), Str(<<"d","r","a","f","t">>)}
LimitValues == {Undefined, Num(255)}

OptionsOf(n, d, l) ==
    Obj((IF d = Undefined THEN <<>> ELSE << <<S_default, d>> >>)
        \o (IF n = Undefined THEN <<>> ELSE << <<S_null, n>> >>)
        \o (IF l = Undefined THEN <<>> ELSE << <<S_limit, l>> >>))

\* every name, required and optional, without decorators
NamedColumns ==
    { [name |-> nm, type |-> S_string, options |-> OptionsOf(n, Undefined, Undefined), enumName |-> Undefined]
      : nm \in ColumnNames, n \in {Undefined, Bool(FALSE)} }

\* every combination of the options null, default and limit
OptionColumns ==
    { [name |-> <<"a","g","e">>, type |-> ty, options |-> OptionsOf(n, d, l), enumName |-> Undefined]
      : ty \in {S_string, <<"M","o","n","e","y">>}, n \in NullValues, d \in DefaultValues, l \in LimitValues }

\* the columns of tables with several columns
MixedColumns ==
    { [name |-> <<"u","s","e","r","N","a","m","e">>, type |-> S_references, options |-> OptionsOf(Bool(FALSE), Undefined, Undefined), enumName |-> Undefined],
      [name |-> <<"s","t","a","t","u","s">>, type |-> S_enum, options |-> OptionsOf(Undefined, Str(<<"d","r","a","f","t">>), Undefined), enumName |-> Str(<<"S","t","a","t","u","s">>)],
      [name |-> <<"a","g","e">>, type |-> <<"i","n","t","e","g","e","r">>, options |-> OptionsOf(Str(<<"f","a","l","s","e">>), Undefined, Num(255)), enumName |-> Undefined],
      [name |-> <<"I","D">>, type |-> S_string, options |-> OptionsOf(Bool(TRUE), Num(25), Num(255)), enumName |-> Undefined] }

ModelTables ==
    [ name : {<<"u","s","e","r","s">>}, className : {<<"U","s","e","r","s">>},
      columns : {<<c>> : c \in NamedColumns \cup OptionColumns} \cup SeqsUpTo(MixedColumns, MaxColumns) ]

ModelInit ==
    /\ prismParse = TRUE /\ prismLoadError = Null /\ invoked = <<>>
    /\ op = "none" /\ ret = Undefined
    /\ arg \in ModelTables

RenderModel ==
    /\ op = "none"
    /\ op' = "renderModel"
    /\ ret' = Str(renderModel(arg))
    /\ UNCHANGED <<prismParse, prismLoadError, invoked, arg>>

ModelNext == RenderModel

SpecModel == ModelInit /\ [][ModelNext]_vars

\* The lines of a rendered model that belong to column i of the table: the
\* decorator lines of the column (one per defined default and limit) and then its
\* field line.
DecoratorCount(column) ==
    (IF Get(column.options, S_default).t # "undefined" THEN 1 ELSE 0)
    + (IF Get(column.options, S_limit).t # "undefined" THEN 1 ELSE 0)

RECURSIVE LinesBefore(_, _)
\* the number of lines of the model before the field line of column i
LinesBefore(columns, i) ==
    IF i = 1 THEN 1 + DecoratorCount(columns[1])
    ELSE LinesBefore(columns, i - 1) + 1 + DecoratorCount(columns[i])

FieldLine(text, columns, i) == SplitOn(text, "\n")[LinesBefore(columns, i) + 1]

\* the text of a field line between the indentation and the first colon
FieldPart(line) == SubSeq(line, 3, IndexIn(line, ":") - 1)
HasOptionalMarker(line) == FieldPart(line) # <<>> /\ FieldPart(line)[Len(FieldPart(line))] = "?"
FieldName(line) ==
    IF HasOptionalMarker(line) THEN SubSeq(FieldPart(line), 1, Len(FieldPart(line)) - 1)
    ELSE FieldPart(line)

\* C3: the field line of a column carries no '?' exactly when options.null is
\* the boolean false; with null absent, true, or any other value the name is
\* followed by '?'.
C3_RequiredIffNullFalse ==
    op = "renderModel" =>
        \A i \in DOMAIN arg.columns :
            HasOptionalMarker(FieldLine(ret.s, arg.columns, i))
                <=> Get(arg.columns[i].options, S_null) # Bool(FALSE)

\* C3 witness: a column whose options.null is the string 'false' was rendered
\* optional.
C3_Witness ==
    /\ op = "renderModel"
    /\ Len(arg.columns) = 1
    /\ Get(arg.columns[1].options, S_null) = Str(<<"f","a","l","s","e">>)
    /\ Get(arg.columns[1].options, S_limit) = Num(255)
    /\ HasOptionalMarker(FieldLine(ret.s, arg.columns, 1))

\* C6 (as claimed): the field name written for a column is character for
\* character the column's name.
C6_FieldNameVerbatim ==
    op = "renderModel" =>
        \A i \in DOMAIN arg.columns :
            FieldName(FieldLine(ret.s, arg.columns, i)) = arg.columns[i].name

\* the name with an underscore before every upper-case letter that follows a
\* lower-case letter or a digit, all letters lowercased
SnakeCased(name) ==
    Flatten([i \in DOMAIN name |->
        IF i > 1 /\ IsUpper(name[i]) /\ (IsLower(name[i - 1]) \/ IsDigit(name[i - 1]))
        THEN <<"_", toLowerCaseChar(name[i])>>
        ELSE <<toLowerCaseChar(name[i])>>])

\* C6 (amended): the field name written for a column is the column's name in
\* snake case: an underscore is inserted between a lower-case letter or digit and
\* the upper-case letter that follows it, and all letters are lowercased; a name
\* without upper-case letters is written character for character.
C6_FieldNameSnakeCased ==
    op = "renderModel" =>
        \A i \in DOMAIN arg.columns :
            LET written == FieldName(FieldLine(ret.s, arg.columns, i))
                name == arg.columns[i].name
            IN  /\ written = SnakeCased(name)
                /\ (\A k \in DOMAIN name : ~IsUpper(name[k])) => written = name

\* C6 witness: the column userName was written as user_name.
C6_Witness ==
    /\ op = "renderModel"
    /\ Len(arg.columns) = 1
    /\ arg.columns[1].name = <<"u","s","e","r","N","a","m","e">>
    /\ FieldName(FieldLine(ret.s, arg.columns, 1)) = <<"u","s","e","r","_","n","a","m","e">>

(***************************************************************************)
(* Node access layer and literal resolver                                  *)
(***************************************************************************)
\* isRecord(value): typeof value === 'object' && value !== null (arrays included)
isRecord(v) == v.t \in {"object", "array"}

IsPrimitive(v) == v.t \in {"string", "number", "boolean"}

\* A node that materializes on demand is an object with a toJSON entry holding
\* what its toJSON() returns.
HasToJSON(v) == v.t = "object" /\ \E i \in DOMAIN v.o : v.o[i][1] = <<"t","o","J","S","O","N">>

\* toJsonNode(node)
toJsonNode(node) ==
    IF ~isRecord(node) THEN node
    ELSE IF HasToJSON(node) THEN Get(node, <<"t","o","J","S","O","N">>) ELSE node

\* Coalesce over three values: a ?? b ?? c
Coalesce3(a, b, c) == Coalesce(Coalesce(a, b), c)

\* extractIdentifierName(node)
extractIdentifierName(node) ==
    IF ~Truthy(node) THEN Undefined
    ELSE IF IsString(node) THEN node
    ELSE LET json == toJsonNode(node) IN
         IF ~Truthy(json) THEN Undefined
         ELSE IF IsString(Get(json, <<"n","a","m","e">>)) THEN Get(json, <<"n","a","m","e">>)
         ELSE IF IsString(Get(json, <<"v","a","l","u","e">>)) THEN Get(json, <<"v","a","l","u","e">>)
         ELSE IF IsString(Get(Get(json, <<"n","a","m","e">>), <<"v","a","l","u","e">>)) THEN Get(Get(json, <<"n","a","m","e">>), <<"v","a","l","u","e">>)
         ELSE IF IsString(Get(Get(json, <<"i","d">>), <<"n","a","m","e">>)) THEN Get(Get(json, <<"i","d">>), <<"n","a","m","e">>)
         ELSE IF IsString(Get(Get(json, <<"i","d">>), <<"v","a","l","u","e">>)) THEN Get(Get(json, <<"i","d">>), <<"v","a","l","u","e">>)
         ELSE Undefined

\* an index argument of String.prototype.slice, clamped to 0..len
SliceIndex(i, len) ==
    IF i < 0 THEN (IF len + i < 0 THEN 0 ELSE len + i) ELSE (IF i > len THEN len ELSE i)

\* String.prototype.slice(start, end)
Slice(s, start, end) == SubSeq(s, SliceIndex(start, Len(s)) + 1, SliceIndex(end, Len(s)))

startsWith(s, c) == s # <<>> /\ s[1] = c
endsWith(s, c) == s # <<>> /\ s[Len(s)] = c

\* the last resort of literalFromNode: the source text between the node's offsets,
\* without its quotes or its leading colon; undefined when the offsets are missing
LiteralFromOffsets(json, source) ==
    LET locationCandidate == Coalesce3(Get(json, <<"l","o","c","a","t","i","o","n">>), Get(json, <<"l","o","c">>), json)
        startOffset == Get(locationCandidate, <<"s","t","a","r","t","O","f","f","s","e","t">>)
        endOffset == Get(locationCandidate, <<"e","n","d","O","f","f","s","e","t">>)
    IN  IF startOffset.t = "number" /\ endOffset.t = "number"
        THEN LET raw == Slice(source, startOffset.n, endOffset.n) IN
             IF (startsWith(raw, "\"") /\ endsWith(raw, "\"")) \/ (startsWith(raw, "'") /\ endsWith(raw, "'"))
             THEN Str(Slice(raw, 1, -1))
             ELSE IF startsWith(raw, ":") THEN Str(Tail(raw))
             ELSE IF raw = <<"t","r","u","e">> THEN Bool(TRUE)
             ELSE IF raw = <<"f","a","l","s","e">> THEN Bool(FALSE)
             ELSE Str(raw)
        ELSE Undefined

\* an element of Array.prototype.join: null and undefined give the empty string
JoinPart(v) == IF IsNullish(v) THEN <<>> ELSE StringOf(v)

RECURSIVE literalFromNode(_, _)
\* literalFromNode(node, source)
literalFromNode(node, source) ==
    IF ~Truthy(node) THEN Undefined
    ELSE LET json == toJsonNode(node) IN
         IF IsPrimitive(json) THEN json
         ELSE IF isRecord(json)
         THEN IF IsPrimitive(Get(json, <<"v","a","l","u","e">>)) THEN Get(json, <<"v","a","l","u","e">>)
              ELSE IF IsArray(Get(json, <<"p","a","r","t","s">>))
              THEN LET parts == Get(json, <<"p","a","r","t","s">>).a
                   IN  Str(Flatten([i \in DOMAIN parts |-> JoinPart(literalFromNode(parts[i], source))]))
              ELSE IF IsArray(Get(json, <<"e","l","e","m","e","n","t","s">>))
              THEN LET elements == Get(json, <<"e","l","e","m","e","n","t","s">>).a
                   IN  Arr([i \in DOMAIN elements |-> literalFromNode(elements[i], source)])
              ELSE LiteralFromOffsets(json, source)
         ELSE Undefined

\* the first of the values that is neither null nor undefined, or the last value
RECURSIVE CoalesceAll(_)
CoalesceAll(vs) == IF Len(vs) = 1 THEN vs[1] ELSE Coalesce(vs[1], CoalesceAll(Tail(vs)))

IsNonEmptyString(v) == IsString(v) /\ v.s # <<>>

\* arrayFromNode(node, source)
arrayFromNode(node, source) ==
    LET json == toJsonNode(node)
        parts == CoalesceAll(<<Get(json, <<"e","l","e","m","e","n","t","s">>), Get(json, <<"a","r","g","s">>), Get(json, <<"a","r","g","u","m","e","n","t","s">>),
                               Get(json, <<"i","t","e","m","s">>), Get(json, <<"c","o","n","t","e","n","t","s">>), Get(json, <<"p","a","r","t","s">>), Arr(<<>>)>>)
    IN  IF ~IsArray(parts) THEN <<>>
        ELSE SelectSeq([i \in DOMAIN parts.a |-> literalFromNode(parts.a[i], source)], IsNonEmptyString)

\* argumentsFromCall(callNode)
argumentsFromCall(callNode) ==
    LET json == toJsonNode(callNode) IN
    IF ~Truthy(json) THEN <<>>
    ELSE IF IsArray(Get(json, <<"a","r","g","u","m","e","n","t","s">>))
    THEN [i \in DOMAIN Get(json, <<"a","r","g","u","m","e","n","t","s">>).a |-> toJsonNode(Get(json, <<"a","r","g","u","m","e","n","t","s">>).a[i])]
    ELSE IF IsArray(Get(Get(json, <<"a","r","g","u","m","e","n","t","s">>), <<"a","r","g","u","m","e","n","t","s">>))
    THEN [i \in DOMAIN Get(Get(json, <<"a","r","g","u","m","e","n","t","s">>), <<"a","r","g","u","m","e","n","t","s">>).a |->
              toJsonNode(Get(Get(json, <<"a","r","g","u","m","e","n","t","s">>), <<"a","r","g","u","m","e","n","t","s">>).a[i])]
    ELSE IF IsArray(Get(json, <<"a","r","g","s">>))
    THEN [i \in DOMAIN Get(json, <<"a","r","g","s">>).a |-> toJsonNode(Get(json, <<"a","r","g","s">>).a[i])]
    ELSE <<>>

\* blockStatements(blockNode)
blockStatements(blockNode) ==
    LET json == toJsonNode(blockNode) IN
    IF ~Truthy(json) THEN <<>>
    ELSE IF IsArray(Get(json, <<"b","o","d","y">>)) THEN Get(json, <<"b","o","d","y">>).a
    ELSE IF IsArray(Get(Get(json, <<"b","o","d","y">>), <<"s","t","a","t","e","m","e","n","t","s">>)) THEN Get(Get(json, <<"b","o","d","y">>), <<"s","t","a","t","e","m","e","n","t","s">>).a
    ELSE IF IsArray(Get(Get(json, <<"s","t","a","t","e","m","e","n","t","s">>), <<"b","o","d","y">>)) THEN Get(Get(json, <<"s","t","a","t","e","m","e","n","t","s">>), <<"b","o","d","y">>).a
    ELSE IF IsArray(Get(Get(json, <<"b","o","d","y">>), <<"b","o","d","y">>)) THEN Get(Get(json, <<"b","o","d","y">>), <<"b","o","d","y">>).a
    ELSE <<>>

\* element i (from 0) of a value that may be an array: tuple?.[i]
At(v, i) == IF IsArray(v) /\ i + 1 \in DOMAIN v.a THEN v.a[i + 1] ELSE Undefined

\* lines 303-307: acc[key] = literalFromNode(valueNode, source) for a non-empty string key
OptionsPut(acc, key, valueNode, source) ==
    IF ~IsString(key) \/ key.s = <<>> THEN acc
    ELSE Put(acc, key.s, literalFromNode(valueNode, source))

\* the key and value nodes of a pair given as a record or as a tuple
OptionsPair(acc, record, tuple, source) ==
    OptionsPut(acc,
               literalFromNode(Coalesce3(Get(record, <<"k","e","y">>), Get(record, <<"n","a","m","e">>), At(tuple, 0)), source),
               Coalesce3(Get(record, <<"v","a","l","u","e">>), Get(record, <<"v","a","l">>), At(tuple, 1)),
               source)

\* one step of the reduce of optionsFromNode
OptionsStep(acc, pair, source) ==
    LET pairJson == toJsonNode(pair)
    IN  OptionsPair(acc,
                    IF isRecord(pairJson) THEN pairJson ELSE Undefined,
                    IF IsArray(pairJson) THEN pairJson ELSE IF IsArray(pair) THEN pair ELSE Undefined,
                    source)

RECURSIVE OptionsReduce(_, _, _)
OptionsReduce(acc, pairs, source) ==
    IF pairs = <<>> THEN acc
    ELSE OptionsReduce(OptionsStep(acc, Head(pairs), source), Tail(pairs), source)

\* optionsFromNode(node, source)
optionsFromNode(node, source) ==
    LET json == toJsonNode(node)
        pairs == CoalesceAll(<<Get(json, <<"e","l","e","m","e","n","t","s">>), Get(json, <<"a","s","s","o","c","s">>), Get(json, <<"a","r","g","u","m","e","n","t","s">>),
                               Get(json, <<"p","a","i","r","s">>)>>)
    IN  IF ~IsArray(pairs) THEN Obj(<<>>) ELSE OptionsReduce(Obj(<<>>), pairs.a, source)


(***************************************************************************)
(* Schema model builder (primary path)                                     *)
(***************************************************************************)
IsSeparator(c) == c = "_" \/ IsSpace(c)

RECURSIVE SplitParts(_)
\* tableName.split(/[_\s]+/).filter(Boolean): the maximal runs of characters that
\* are neither underscores nor white space
SplitParts(s) ==
    IF s = <<>> THEN <<>>
    ELSE IF IsSeparator(Head(s)) THEN SplitParts(Tail(s))
    ELSE LET rest == SplitParts(Tail(s))
         IN  IF Len(s) > 1 /\ ~IsSeparator(s[2])
             THEN <<<<Head(s)>> \o Head(rest)>> \o Tail(rest)
             ELSE <<<<Head(s)>>>> \o rest

\* Mutant: the characters after the first are written in lower case.
UpperFirst_Capitalize(part) ==
    IF part = <<>> THEN part
    ELSE <<toUpperCaseChar(part[1])>> \o [i \in 1..(Len(part) - 1) |-> toLowerCaseChar(part[i + 1])]

\* part.charAt(0).toUpperCase() + part.slice(1)
UpperFirst(part) == IF part = <<>> THEN part ELSE <<toUpperCaseChar(part[1])>> \o Tail(part)

\* classifyTableName(tableName)
classifyTableName(tableName) ==
    IF ~Truthy(tableName) \/ ~IsString(tableName) THEN <<"M","o","d","e","l">>
    ELSE Flatten([i \in DOMAIN SplitParts(tableName.s) |-> UpperFirst(SplitParts(tableName.s)[i])])

\* TIMESTAMP_COLUMNS; the copies pushed by createColumnsFromBlock carry no enumName
TIMESTAMP_COLUMNS == <<
    [name |-> <<"c","r","e","a","t","e","d","_","a","t">>, type |-> <<"d","a","t","e","t","i","m","e">>, options |-> Obj(<< <<S_null, Bool(FALSE)>> >>), enumName |-> Undefined],
    [name |-> <<"u","p","d","a","t","e","d","_","a","t">>, type |-> <<"d","a","t","e","t","i","m","e">>, options |-> Obj(<< <<S_null, Bool(FALSE)>> >>), enumName |-> Undefined]
>>

\* Mutant: only the first timestamp column is copied.
TimestampCopies_FirstOnly == <<TIMESTAMP_COLUMNS[1]>>

\* TIMESTAMP_COLUMNS.map((column) => ({ ...column, options: { ...column.options } }))
TimestampCopies == [i \in DOMAIN TIMESTAMP_COLUMNS |-> TIMESTAMP_COLUMNS[i]]

\* s.replace(/"/g, '')
RemoveQuotes(s) == SelectSeq(s, LAMBDA c : c # "\"")

\* the node's tag: json.type ?? json.kind
NodeType(json) == Coalesce(Get(json, <<"t","y","p","e">>), Get(json, <<"k","i","n","d">>))
IsCallTag(v) == v = Str(<<"C","a","l","l","N","o","d","e">>) \/ v = Str(<<"c","a","l","l","_","n","o","d","e">>)
IsBlockTag(v) == v = Str(<<"B","l","o","c","k","N","o","d","e">>) \/ v = Str(<<"b","l","o","c","k","_","n","o","d","e">>)

\* the method name of a call node
MethodNameOf(json) == extractIdentifierName(Coalesce3(Get(json, <<"n","a","m","e">>), Get(json, <<"m","e","t","h","o","d">>), Get(json, <<"i","d","e","n","t","i","f","i","e","r">>)))

\* lines 375-381: the enum link of a column
EnumLink(type, rawEnum) ==
    IF type = Str(S_enum) /\ IsString(rawEnum) /\ rawEnum.s # <<>>
    THEN Str(classifyTableName(rawEnum))
    ELSE Undefined

\* options?.enum_type ?? options?.enum ?? options?.name
RawEnum(options) == Coalesce3(Get(options, <<"e","n","u","m","_","t","y","p","e">>), Get(options, <<"e","n","u","m">>), Get(options, <<"n","a","m","e">>))

\* lines 371-388: the column pushed for a call with arguments
ColumnOfCall(methodName, columnName, options) ==
    IF ~IsString(columnName) THEN <<>>
    ELSE << [name |-> RemoveQuotes(StringOf(columnName)), type |-> methodName.s,
             options |-> options, enumName |-> EnumLink(methodName, RawEnum(options))] >>

\* lines 356-388: the columns pushed for the statement json
ColumnsOfCall(json, methodName, args, source) ==
    IF ~isRecord(json) THEN <<>>
    ELSE IF ~IsCallTag(NodeType(json)) THEN <<>>
    ELSE IF ~Truthy(methodName) THEN <<>>
    ELSE IF methodName = Str(<<"t","i","m","e","s","t","a","m","p","s">>) \/ methodName = Str(<<"t",".","t","i","m","e","s","t","a","m","p","s">>) THEN TimestampCopies
    ELSE IF Len(args) = 0 THEN <<>>
    ELSE ColumnOfCall(methodName, literalFromNode(args[1], source),
                      IF Len(args) > 1 THEN optionsFromNode(args[2], source) ELSE Obj(<<>>))

ColumnsOfJson(json, source) == ColumnsOfCall(json, MethodNameOf(json), argumentsFromCall(json), source)

\* the body of the loop of createColumnsFromBlock: the columns one statement adds
ColumnsOfStatement(statement, source) == ColumnsOfJson(toJsonNode(statement), source)

RECURSIVE ColumnsOfStatements(_, _)
ColumnsOfStatements(statements, source) ==
    IF statements = <<>> THEN <<>>
    ELSE ColumnsOfStatement(Head(statements), source) \o ColumnsOfStatements(Tail(statements), source)

\* Mutant: the statements of the block are read from the last to the first.
createColumnsFromBlock_LastFirst(blockNode, source) ==
    ColumnsOfStatements([i \in DOMAIN blockStatements(blockNode) |->
                            blockStatements(blockNode)[Len(blockStatements(blockNode)) + 1 - i]], source)

\* createColumnsFromBlock(blockNode, source)
createColumnsFromBlock(blockNode, source) == ColumnsOfStatements(blockStatements(blockNode), source)

\* lines 404-411: the table of a create_table block named tableName
TableOfName(json, tableName, source) ==
    IF ~IsString(tableName) \/ tableName.s = <<>> THEN Null
    ELSE [name |-> tableName.s, className |-> classifyTableName(tableName),
          columns |-> createColumnsFromBlock(json, source)]

\* lines 398-405: the call of the block must be create_table with an argument
TableOfCall(json, methodName, args, source) ==
    IF methodName # Str(<<"c","r","e","a","t","e","_","t","a","b","l","e">>) THEN Null
    ELSE IF Len(args) = 0 THEN Null
    ELSE TableOfName(json, literalFromNode(args[1], source), source)

TableOfCallJson(json, callJson, source) ==
    TableOfCall(json, MethodNameOf(callJson), argumentsFromCall(callJson), source)

\* lines 395-397: json?.call ?? json?.statement ?? json?.target
TableOfJson(json, source) ==
    TableOfCallJson(json, toJsonNode(Coalesce3(Get(json, <<"c","a","l","l">>), Get(json, <<"s","t","a","t","e","m","e","n","t">>), Get(json, <<"t","a","r","g","e","t">>))), source)

\* extractTableFromBlock(blockNode, source): a table, or Null
extractTableFromBlock(blockNode, source) == TableOfJson(toJsonNode(blockNode), source)

\* the strings kept by arrayFromNode, as character sequences
StringValues(values) == [i \in DOMAIN values |-> values[i].s]

\* lines 421-428: the enum definition of a create_enum call with arguments
EnumOfName(args, enumName, source) ==
    IF ~IsString(enumName) \/ enumName.s = <<>> THEN Null
    ELSE [name |-> enumName.s, className |-> classifyTableName(enumName),
          values |-> IF Len(args) > 1 THEN StringValues(arrayFromNode(args[2], source)) ELSE <<>>]

EnumOfCall(methodName, args, source) ==
    IF methodName # Str(<<"c","r","e","a","t","e","_","e","n","u","m">>) THEN Null
    ELSE IF Len(args) = 0 THEN Null
    ELSE EnumOfName(args, literalFromNode(args[1], source), source)

EnumOfJson(json, source) == EnumOfCall(MethodNameOf(json), argumentsFromCall(json), source)

\* extractEnumFromCall(callNode, source): an enum definition, or Null
extractEnumFromCall(callNode, source) == EnumOfJson(toJsonNode(callNode), source)

(***************************************************************************)
(* Traversal                                                               *)
(***************************************************************************)
\* Object.values(json): the values of an object in insertion order, the elements
\* of an array
ObjectValues(json) == IF json.t = "object" THEN [i \in DOMAIN json.o |-> json.o[i][2]] ELSE json.a

\* the test of line 180: a nested object is descended into when it has a string
\* tag or a toJSON method
IsDescendable(value) ==
    isRecord(value) /\ (IsString(Get(value, <<"t","y","p","e">>)) \/ IsString(Get(value, <<"k","i","n","d">>)) \/ HasToJSON(value))

RECURSIVE visitPrismAst(_, _)
RECURSIVE VisitAll(_, _)
RECURSIVE VisitValues(_, _)
RECURSIVE VisitJson(_, _)

\* Mutant: the visitor is called on every record, tagged or not.
VisitorCall_Always(json, type, kind, parent) == << <<json, parent>> >>

\* lines 165-168: visitor(json, parent) is called when the node has a non-empty
\* string type, or no string type and a non-empty string kind
VisitorCall(json, type, kind, parent) ==
    IF IsString(type) /\ type.s # <<>> THEN << <<json, parent>> >>
    ELSE IF ~IsString(type) /\ IsString(kind) /\ kind.s # <<>> THEN << <<json, parent>> >>
    ELSE <<>>

\* visitPrismAst(node, visitor, parent): the calls visitor(json, parent) it makes,
\* in order, as a sequence of <<json, parent>>
visitPrismAst(node, parent) ==
    IF ~Truthy(node) THEN <<>> ELSE VisitJson(toJsonNode(node), parent)

\* lines 163-183: the visit of the node json
VisitJson(json, parent) ==
    IF ~isRecord(json) THEN <<>>
    ELSE VisitorCall(json, Get(json, <<"t","y","p","e">>), Get(json, <<"k","i","n","d">>), parent)
         \o VisitValues(ObjectValues(json), json)

\* the inner loop over the elements of an array-valued field
VisitAll(elements, parent) ==
    IF elements = <<>> THEN <<>>
    ELSE visitPrismAst(Head(elements), parent) \o VisitAll(Tail(elements), parent)

\* lines 171-182: one value of Object.values(json)
VisitValue(value, json) ==
    IF IsNullish(value) THEN <<>>
    ELSE IF IsArray(value) THEN VisitAll(value.a, json)
    ELSE IF IsDescendable(value) THEN visitPrismAst(value, json)
    ELSE <<>>

\* the loop over Object.values(json)
VisitValues(values, json) ==
    IF values = <<>> THEN <<>>
    ELSE VisitValue(Head(values), json) \o VisitValues(Tail(values), json)


(***************************************************************************)
(* Primary path                                                            *)
(***************************************************************************)
\* one entry of normalizeDiagnostics: its message when it is an object with a
\* string message, String(entry) otherwise
DiagnosticText(entry) ==
    IF Truthy(entry) /\ isRecord(entry) /\ IsString(Get(entry, <<"m","e","s","s","a","g","e">>))
    THEN Get(entry, <<"m","e","s","s","a","g","e">>).s
    ELSE StringOf(entry)

\* normalizeDiagnostics(list)
normalizeDiagnostics(list) ==
    IF ~IsArray(list) THEN <<>> ELSE [i \in DOMAIN list.a |-> DiagnosticText(list.a[i])]

\* the message of line 485 (Japanese in the source: "@ruby/prism is not
\* available."), kept as one symbol
PrismUnavailableMessage == <<"@ruby/prism is not available.">>

RECURSIVE VisitTables(_, _)
\* if (table) tables.push(table)
Pushed(definition) == IF definition = Null THEN <<>> ELSE <<definition>>

\* lines 509-513: what the visitor of parseWithPrism pushes to tables for one node
VisitorTables(node, source) ==
    IF IsBlockTag(NodeType(node)) THEN Pushed(extractTableFromBlock(node, source)) ELSE <<>>

\* the tables the visitor of parseWithPrism pushes, over the visited nodes in order
VisitTables(visited, source) ==
    IF visited = <<>> THEN <<>>
    ELSE VisitorTables(Head(visited)[1], source) \o VisitTables(Tail(visited), source)

RECURSIVE VisitEnums(_, _)
\* lines 514-517: what the visitor of parseWithPrism pushes to enums for one node
VisitorEnums(node, nodeType, source) ==
    IF ~IsBlockTag(nodeType) /\ IsCallTag(nodeType)
    THEN Pushed(extractEnumFromCall(node, source)) ELSE <<>>

\* the enums the visitor of parseWithPrism pushes, over the visited nodes in order
VisitEnums(visited, source) ==
    IF visited = <<>> THEN <<>>
    ELSE VisitorEnums(Head(visited)[1], NodeType(Head(visited)[1]), source) \o VisitEnums(Tail(visited), source)

\* line 503: result?.ast ?? result?.value ?? result
PrismAst(result) == toJsonNode(Coalesce3(Get(result, <<"a","s","t">>), Get(result, <<"v","a","l","u","e">>), result))

\* lines 503-527: the result of a parse that did not throw
PrismCollected(schemaContent, result, visited) ==
    [tables |-> VisitTables(visited, schemaContent),
     enums |-> VisitEnums(visited, schemaContent),
     diagnostics |-> [errors |-> normalizeDiagnostics(Get(result, <<"e","r","r","o","r","s">>)),
                      warnings |-> normalizeDiagnostics(Get(result, <<"w","a","r","n","i","n","g","s">>))]]

\* parseWithPrism(schemaContent); prism is what the call prismParse(schemaContent,
\* {json: true}) does: [throws, message, result]
parseWithPrism(schemaContent, prism) ==
    IF ~prismParse
    THEN [tables |-> <<>>, enums |-> <<>>,
          diagnostics |-> [errors |-> <<PrismUnavailableMessage>>, warnings |-> <<>>]]
    ELSE IF prism.throws
    THEN [tables |-> <<>>, enums |-> <<>>,
          diagnostics |-> [errors |-> <<prism.message>>, warnings |-> <<>>]]
    ELSE PrismCollected(schemaContent, prism.result, visitPrismAst(PrismAst(prism.result), Null))


(***************************************************************************)
(* The schema texts of the model.  A schema is described by its items in   *)
(* source order: tables [kind, name, statements] and enums [kind, name,    *)
(* values].  A statement of a create_table block is                        *)
(*   [form, method, name, options]                                         *)
(* form "recv":   t.<method> <name>, <options>   (receiver-qualified)      *)
(* form "paren":  t.<method>(<name>, <options>)                            *)
(* form "bare":   <method> <name>, <options>     (no receiver)             *)
(* form "assign": x = 1                          (not a call)              *)
(* name is a literal value or Undefined (no positional argument); options  *)
(* is a sequence of <<key, value>>.  The AST providers turn the text into  *)
(* trees: Prism into nodes, Ripper into s-expressions.                     *)
(***************************************************************************)
Stmt(form, method, name, options) == [form |-> form, method |-> method, name |-> name, options |-> options]

\* --- the tree of the primary provider, in the two node conventions the code
\* accepts: "type" (type, CallNode, arguments.arguments, body.body, literal nodes
\* located by offsets into the source) and "kind" (kind, call_node, args, body,
\* literal nodes carrying a value)

\* the text of a literal as it stands in the source
RECURSIVE LiteralSource(_)
LiteralSource(v) ==
    CASE v.t = "string"  -> <<"\"">> \o v.s \o <<"\"">>
      [] v.t = "symbol"  -> <<":">> \o v.s
      [] v.t = "array"   -> <<"[">> \o JoinWith([i \in DOMAIN v.a |-> LiteralSource(v.a[i])], <<","," ">>) \o <<"]">>
      [] OTHER           -> StringOf(v)

\* a symbol literal of the source (:name, or the key of name: value)
Sym(x) == [t |-> "symbol", b |-> FALSE, n |-> 0, s |-> x, a |-> <<>>, o |-> <<>>]

\* the offset of the first occurrence of token in source (from 0), or -1
FindOffset(source, token) ==
    IF \E k \in 0..(Len(source) - Len(token)) : SubSeq(source, k + 1, k + Len(token)) = token
    THEN CHOOSE k \in 0..(Len(source) - Len(token)) :
             /\ SubSeq(source, k + 1, k + Len(token)) = token
             /\ \A j \in 0..(k - 1) : SubSeq(source, j + 1, j + Len(token)) # token
    ELSE -1

RECURSIVE PrismLiteral(_, _, _)
\* the node of a literal
PrismLiteral(style, v, source) ==
    IF v.t = "array"
    THEN Obj(<< <<(IF style = "type" THEN <<"t","y","p","e">> ELSE <<"k","i","n","d">>), Str(IF style = "type" THEN <<"A","r","r","a","y","N","o","d","e">> ELSE <<"a","r","r","a","y","_","n","o","d","e">>)>>,
                <<<<"e","l","e","m","e","n","t","s">>, Arr([i \in DOMAIN v.a |-> PrismLiteral(style, v.a[i], source)])>> >>)
    ELSE IF style = "type"
    THEN Obj(<< <<<<"t","y","p","e">>, Str(<<"L","i","t","e","r","a","l","N","o","d","e">>)>>,
                <<<<"l","o","c","a","t","i","o","n">>, Obj(<< <<<<"s","t","a","r","t","O","f","f","s","e","t">>, Num(FindOffset(source, LiteralSource(v)))>>,
                                     <<<<"e","n","d","O","f","f","s","e","t">>, Num(FindOffset(source, LiteralSource(v)) + Len(LiteralSource(v)))>> >>)>> >>)
    ELSE Obj(<< <<<<"k","i","n","d">>, Str(<<"l","i","t","e","r","a","l","_","n","o","d","e">>)>>,
                <<<<"v","a","l","u","e">>, IF v.t = "symbol" THEN Str(v.s) ELSE v>> >>)

\* the node of a keyword-argument list
PrismOptions(style, options, source) ==
    IF style = "type"
    THEN Obj(<< <<<<"t","y","p","e">>, Str(<<"K","e","y","w","o","r","d","H","a","s","h","N","o","d","e">>)>>,
                <<<<"e","l","e","m","e","n","t","s">>, Arr([i \in DOMAIN options |->
                    Obj(<< <<<<"t","y","p","e">>, Str(<<"A","s","s","o","c","N","o","d","e">>)>>,
                           <<<<"k","e","y">>, PrismLiteral(style, Sym(options[i][1]), source)>>,
                           <<<<"v","a","l","u","e">>, PrismLiteral(style, options[i][2], source)>> >>)])>> >>)
    ELSE Obj(<< <<<<"k","i","n","d">>, Str(<<"h","a","s","h","_","n","o","d","e">>)>>,
                <<<<"p","a","i","r","s">>, Arr([i \in DOMAIN options |->
                    Arr(<<PrismLiteral(style, Sym(options[i][1]), source),
                          PrismLiteral(style, options[i][2], source)>>)])>> >>)

\* the argument nodes of a call: the positional literals, then the keyword
\* arguments when there are any
PrismArguments(style, positional, options, source) ==
    [i \in DOMAIN positional |-> PrismLiteral(style, positional[i], source)]
    \o (IF options = <<>> THEN <<>> ELSE <<PrismOptions(style, options, source)>>)

\* the node of a call
PrismCall(style, receiver, method, positional, options, source) ==
    IF style = "type"
    THEN Obj(<< <<<<"t","y","p","e">>, Str(<<"C","a","l","l","N","o","d","e">>)>>,
                <<<<"r","e","c","e","i","v","e","r">>, IF receiver THEN Obj(<< <<<<"t","y","p","e">>, Str(<<"L","o","c","a","l","V","a","r","i","a","b","l","e","R","e","a","d","N","o","d","e">>)>>, <<<<"n","a","m","e">>, Str(<<"t">>)>> >>) ELSE Null>>,
                <<<<"n","a","m","e">>, Str(method)>>,
                <<<<"a","r","g","u","m","e","n","t","s">>, IF positional = <<>> /\ options = <<>> THEN Null
                               ELSE Obj(<< <<<<"t","y","p","e">>, Str(<<"A","r","g","u","m","e","n","t","s","N","o","d","e">>)>>,
                                           <<<<"a","r","g","u","m","e","n","t","s">>, Arr(PrismArguments(style, positional, options, source))>> >>)>> >>)
    ELSE Obj(<< <<<<"k","i","n","d">>, Str(<<"c","a","l","l","_","n","o","d","e">>)>>,
                <<<<"m","e","t","h","o","d">>, Obj(<< <<<<"v","a","l","u","e">>, Str(method)>> >>)>>,
                <<<<"a","r","g","s">>, Arr(PrismArguments(style, positional, options, source))>> >>)

\* the node of a statement of a block
PrismStatement(style, stmt, source) ==
    IF stmt.form = "assign"
    THEN Obj(<< <<(IF style = "type" THEN <<"t","y","p","e">> ELSE <<"k","i","n","d">>), Str(<<"L","o","c","a","l","V","a","r","i","a","b","l","e","W","r","i","t","e","N","o","d","e">>)>>,
                <<<<"n","a","m","e">>, Str(<<"x">>)>>, <<<<"v","a","l","u","e">>, Num(1)>> >>)
    ELSE PrismCall(style, stmt.form # "bare", stmt.method,
                   IF stmt.name = Undefined THEN <<>> ELSE <<stmt.name>>, stmt.options, source)

\* the node of a top-level item: a block node holding its create_table call and
\* its statements, or a create_enum call
PrismItem(style, item, source) ==
    IF item.kind = "table"
    THEN LET call == PrismCall(style, FALSE, <<"c","r","e","a","t","e","_","t","a","b","l","e">>, <<Str(item.name)>>, <<>>, source)
             statements == Arr([i \in DOMAIN item.statements |-> PrismStatement(style, item.statements[i], source)])
         IN  IF style = "type"
             THEN Obj(<< <<<<"t","y","p","e">>, Str(<<"B","l","o","c","k","N","o","d","e">>)>>, <<<<"c","a","l","l">>, call>>,
                         <<<<"b","o","d","y">>, Obj(<< <<<<"t","y","p","e">>, Str(<<"S","t","a","t","e","m","e","n","t","s","N","o","d","e">>)>>, <<<<"b","o","d","y">>, statements>> >>)>> >>)
             ELSE Obj(<< <<<<"k","i","n","d">>, Str(<<"b","l","o","c","k","_","n","o","d","e">>)>>, <<<<"t","a","r","g","e","t">>, call>>, <<<<"b","o","d","y">>, statements>> >>)
    ELSE PrismCall(style, FALSE, <<"c","r","e","a","t","e","_","e","n","u","m">>, <<Str(item.name), Arr(item.values)>>, <<>>, source)

\* the tree of a schema
PrismProgram(style, schema, source) ==
    Obj(<< <<(IF style = "type" THEN <<"t","y","p","e">> ELSE <<"k","i","n","d">>), Str(IF style = "type" THEN <<"P","r","o","g","r","a","m","N","o","d","e">> ELSE <<"p","r","o","g","r","a","m","_","n","o","d","e">>)>>,
           <<<<"s","t","a","t","e","m","e","n","t","s">>, Obj(<< <<(IF style = "type" THEN <<"t","y","p","e">> ELSE <<"k","i","n","d">>), Str(<<"S","t","a","t","e","m","e","n","t","s","N","o","d","e">>)>>,
                                  <<<<"b","o","d","y">>, Arr([i \in DOMAIN schema |-> PrismItem(style, schema[i], source)])>> >>)>> >>)

\* --- the source text of a schema: its literals in order of appearance, which is
\* all of the text that the offsets of literal nodes point into
RECURSIVE StatementsSource(_)
StatementsSource(statements) ==
    IF statements = <<>> THEN <<>>
    ELSE LET stmt == Head(statements) IN
         stmt.method \o <<" ">>
         \o (IF stmt.name = Undefined THEN <<>> ELSE LiteralSource(stmt.name) \o <<" ">>)
         \o Flatten([i \in DOMAIN stmt.options |->
                LiteralSource(Sym(stmt.options[i][1])) \o <<" ">> \o LiteralSource(stmt.options[i][2]) \o <<" ">>])
         \o <<"\n">> \o StatementsSource(Tail(statements))

RECURSIVE SchemaSource(_)
SchemaSource(schema) ==
    IF schema = <<>> THEN <<>>
    ELSE LET item == Head(schema) IN
         (IF item.kind = "table"
          THEN <<"c","r","e","a","t","e","_","t","a","b","l","e"," ">> \o LiteralSource(Str(item.name)) \o <<"\n">> \o StatementsSource(item.statements)
          ELSE <<"c","r","e","a","t","e","_","e","n","u","m"," ">> \o LiteralSource(Str(item.name)) \o <<" ">>
               \o Flatten([i \in DOMAIN item.values |-> LiteralSource(item.values[i]) \o <<" ">>]) \o <<"\n">>)
         \o SchemaSource(Tail(schema))


(***************************************************************************)
(* The fallback script rubyFallback.rb (lines 672-918).  Ruby values are   *)
(* the JavaScript-style records: nil is Null, a Hash is an object, and a   *)
(* Symbol is a record with t = "symbol".  A Ripper s-expression is an      *)
(* array whose first element is its type symbol.                           *)
(***************************************************************************)
\* a type symbol of Ripper, its name kept as one symbol
Tag(name) == Sym(<<name>>)

\* node[0] == :name for a node that is an Array
HasTag(node, name) == IsArray(node) /\ node.a # <<>> /\ node.a[1] = Tag(name)

\* node[i] of an Array (nil when out of range), nil of anything else
Elem(node, i) == IF IsArray(node) /\ i + 1 \in DOMAIN node.a THEN node.a[i + 1] ELSE Null

\* Ruby truthiness: only nil and false are falsy
RubyTruthy(v) == ~(v.t = "null" \/ (v.t = "boolean" /\ ~v.b))

RECURSIVE StringToNat(_)
\* String#to_i for a string of digits
StringToNat(s) ==
    IF s = <<>> THEN 0
    ELSE IF ~IsDigit(s[Len(s)]) THEN 0
    ELSE StringToNat(SubSeq(s, 1, Len(s) - 1)) * 10 + (IndexIn(DigitChars, s[Len(s)]) - 1)

RECURSIVE RubyToS(_)
\* Object#to_s, and an element of Array#join (nested arrays are joined in place)
RubyToS(v) ==
    CASE v.t = "null"    -> <<>>
      [] v.t = "boolean" -> IF v.b THEN <<"t","r","u","e">> ELSE <<"f","a","l","s","e">>
      [] v.t = "number"  -> IF v.n < 0 THEN <<"-">> \o NatToString(-v.n) ELSE NatToString(v.n)
      [] v.t = "array"   -> Flatten([i \in DOMAIN v.a |-> RubyToS(v.a[i])])
      [] OTHER           -> v.s

\* String#delete_suffix(':')
DeleteColonSuffix(s) == IF endsWith(s, ":") THEN SubSeq(s, 1, Len(s) - 1) ELSE s

\* Array#compact
Compact(vs) == SelectSeq(vs, LAMBDA v : v # Null)

RECURSIVE literal(_)
RECURSIVE parse_options(_)
RECURSIVE ParseAssocs(_, _)

\* def literal(node)
literal(node) ==
    IF ~IsArray(node) \/ node.a = <<>> THEN Null
    ELSE LET type == node.a[1] IN
    CASE type \in {Tag("string_literal"), Tag("symbol_literal"), Tag("symbol"), Tag("dyna_symbol"),
                   Tag("var_ref"), Tag("vcall"), Tag("paren"), Tag("arg_paren")}
            -> literal(Elem(node, 1))
      [] type = Tag("string_content")
            -> Str(Flatten([i \in 1..(Len(node.a) - 1) |-> RubyToS(literal(node.a[i + 1]))]))
      [] type = Tag("string_add")
            -> Str(RubyToS(literal(Elem(node, 1))) \o RubyToS(literal(Elem(node, 2))))
      [] type \in {Tag("@tstring_content"), Tag("@ident"), Tag("@const")}
            -> Elem(node, 1)
      [] type = Tag("@label")
            -> Str(DeleteColonSuffix(RubyToS(Elem(node, 1))))
      [] type = Tag("@kw")
            -> IF Elem(node, 1) = Str(<<"t","r","u","e">>) THEN Bool(TRUE)
               ELSE IF Elem(node, 1) = Str(<<"f","a","l","s","e">>) THEN Bool(FALSE)
               ELSE IF Elem(node, 1) = Str(<<"n","i","l">>) THEN Null
               ELSE Elem(node, 1)
      [] type = Tag("@int")
            -> Num(StringToNat(Elem(node, 1).s))
      [] type = Tag("array")
            -> LET elements == IF RubyTruthy(Elem(node, 1)) THEN Elem(node, 1).a ELSE <<>>
               IN  Arr(Compact([i \in DOMAIN elements |-> literal(elements[i])]))
      [] type = Tag("args_add_block")
            -> LET args == IF RubyTruthy(Elem(node, 1)) THEN Elem(node, 1).a ELSE <<>>
               IN  Arr([i \in DOMAIN args |-> literal(args[i])])
      [] type = Tag("bare_assoc_hash")
            -> parse_options(node)
      [] type = Tag("hash")
            -> parse_options(Elem(node, 1))
      [] type = Tag("assoc_new")
            -> Arr(<<literal(Elem(node, 1)), literal(Elem(node, 2))>>)
      [] OTHER -> Null

\* the each_with_object loop of parse_options: hash[key] = value for every
\* :assoc_new pair; a nil key is written as the empty key
ParseAssocs(pairs, hash) ==
    IF pairs = <<>> THEN hash
    ELSE LET assoc == Head(pairs) IN
         IF ~HasTag(assoc, "assoc_new") THEN ParseAssocs(Tail(pairs), hash)
         ELSE ParseAssocs(Tail(pairs),
                          Put(hash, RubyToS(literal(Elem(assoc, 1))), literal(Elem(assoc, 2))))

\* def parse_options(node)
parse_options(node) ==
    IF ~IsArray(node) \/ node.a = <<>> THEN Obj(<<>>)
    ELSE IF node.a[1] = Tag("bare_assoc_hash")
    THEN ParseAssocs(IF RubyTruthy(Elem(node, 1)) THEN Elem(node, 1).a ELSE <<>>, Obj(<<>>))
    ELSE IF node.a[1] = Tag("hash") THEN parse_options(Elem(node, 1))
    ELSE Obj(<<>>)

RECURSIVE extract_args(_)
\* def extract_args(node): a Ruby Array of argument nodes, as a sequence
extract_args(node) ==
    IF ~IsArray(node) \/ node.a = <<>> THEN <<>>
    ELSE IF node.a[1] = Tag("args_add_block")
    THEN (IF RubyTruthy(Elem(node, 1)) THEN Elem(node, 1).a ELSE <<>>)
    ELSE IF node.a[1] \in {Tag("arg_paren"), Tag("paren")} THEN extract_args(Elem(node, 1))
    ELSE <<node>>

\* the column hashes of the script: {'name' =>, 'type' =>, 'options' =>}
RubyColumn(name, type, options) ==
    Obj(<< <<<<"n","a","m","e">>, name>>, <<<<"t","y","p","e">>, type>>, <<<<"o","p","t","i","o","n","s">>, options>> >>)

\* def append_timestamps(columns)
append_timestamps(columns) ==
    columns \o << RubyColumn(Str(<<"c","r","e","a","t","e","d","_","a","t">>), Str(<<"d","a","t","e","t","i","m","e">>), Obj(<< <<S_null, Bool(FALSE)>> >>)),
                  RubyColumn(Str(<<"u","p","d","a","t","e","d","_","a","t">>), Str(<<"d","a","t","e","t","i","m","e">>), Obj(<< <<S_null, Bool(FALSE)>> >>)) >>

RECURSIVE MergeOptions(_, _)
\* Hash#merge!: the entries of more written over options, in order
MergeHash(options, more) ==
    LET Merge[k \in 0..Len(more)] ==
            IF k = 0 THEN options ELSE Put(Merge[k - 1], more[k][1], more[k][2])
    IN  Merge[Len(more)]

\* options.merge!(parse_options(arg_node)) over the argument nodes
MergeOptions(options, arg_nodes) ==
    IF arg_nodes = <<>> THEN options
    ELSE MergeOptions(MergeHash(options, parse_options(Head(arg_nodes)).o), Tail(arg_nodes))

\* raw_name.to_s if raw_name (nil gives no name, written as the empty string)
ToSIfTruthy(value) == IF RubyTruthy(value) THEN RubyToS(value) ELSE <<>>

\* lines 790-801: the column appended for column_name
NamedColumn(columns, method_name, column_name, arg_nodes) ==
    IF column_name = <<>> THEN columns
    ELSE Append(columns, RubyColumn(Str(column_name), method_name, MergeOptions(Obj(<<>>), arg_nodes)))

\* def process_column(columns, method_name, args_nodes): the columns afterwards
process_column(columns, method_name, args_nodes) ==
    IF method_name = Str(<<"t","i","m","e","s","t","a","m","p","s">>) THEN append_timestamps(columns)
    ELSE IF args_nodes = <<>> THEN columns
    ELSE NamedColumn(columns, method_name, ToSIfTruthy(literal(args_nodes[1])), Tail(args_nodes))


\* the method token and the argument nodes of a statement, by its type; Null
\* for a statement the case skips
StatementCall(statement) ==
    IF ~IsArray(statement) THEN Null
    ELSE IF HasTag(statement, "command_call")
    THEN (IF ~IsArray(Elem(statement, 1)) THEN Null
          ELSE [method_token |-> Elem(statement, 3), args_nodes |-> extract_args(Elem(statement, 4))])
    ELSE IF HasTag(statement, "call")
    THEN [method_token |-> Elem(statement, 3), args_nodes |-> <<>>]
    ELSE IF HasTag(statement, "method_add_arg")
    THEN (IF ~HasTag(Elem(statement, 1), "call") THEN Null
          ELSE [method_token |-> Elem(Elem(statement, 1), 3), args_nodes |-> extract_args(Elem(statement, 2))])
    ELSE Null

ProcessedCall(columns, call) ==
    IF call = Null THEN columns
    ELSE process_column(columns, literal(call.method_token), call.args_nodes)

\* the columns a statement of a do-block adds (lines 838-863)
StatementColumns(columns, statement) == ProcessedCall(columns, StatementCall(statement))

\* statements.each over the statements of the block body
BlockColumns(statements) ==
    LET Cols[k \in 0..Len(statements)] ==
            IF k = 0 THEN <<>> ELSE StatementColumns(Cols[k - 1], statements[k])
    IN  Cols[Len(statements)]

\* lines 835-837: the statements of a do_block
DoBlockStatements(block) ==
    IF HasTag(block, "do_block") /\ IsArray(Elem(Elem(block, 2), 1)) THEN Elem(Elem(block, 2), 1).a ELSE <<>>

\* lines 833-870: the table hash appended for table_name
NamedTable(table_name, block) ==
    IF table_name # <<>>
    THEN << Obj(<< <<<<"n","a","m","e">>, Str(table_name)>>, <<<<"c","o","l","u","m","n","s">>, Arr(BlockColumns(DoBlockStatements(block)))>> >>) >>
    ELSE <<>>

\* lines 828-831: args_nodes && args_nodes[0]
FirstArg(args_nodes) == IF args_nodes = <<>> THEN Null ELSE args_nodes[1]

\* the tables a popped node adds (lines 820-872): none or one
NodeTables(node) ==
    IF HasTag(node, "method_add_block") /\ HasTag(Elem(node, 1), "command")
       /\ literal(Elem(Elem(node, 1), 1)) = Str(<<"c","r","e","a","t","e","_","t","a","b","l","e">>)
    THEN NamedTable(ToSIfTruthy(literal(FirstArg(extract_args(Elem(Elem(node, 1), 2))))), Elem(node, 2))
    ELSE <<>>

\* Array(values)
RubyArray(values) == IF IsArray(values) THEN values.a ELSE IF values = Null THEN <<>> ELSE <<values>>

\* map(&:to_s)
MapToS(list) == [i \in DOMAIN list |-> Str(RubyToS(list[i]))]

\* Array(values).compact.map(&:to_s)
EnumValueStrings(values) == MapToS(Compact(RubyArray(values)))

\* lines 881-890: the enum hash appended for enum_name
NamedEnum(enum_name, args_nodes) ==
    IF enum_name # <<>>
    THEN << Obj(<< <<<<"n","a","m","e">>, Str(enum_name)>>,
                   <<<<"v","a","l","u","e","s">>, Arr(EnumValueStrings(literal(IF Len(args_nodes) > 1 THEN args_nodes[2] ELSE Null)))>> >>) >>
    ELSE <<>>

\* lines 876-879
EnumOfArgs(args_nodes) ==
    IF args_nodes # <<>> THEN NamedEnum(ToSIfTruthy(literal(args_nodes[1])), args_nodes) ELSE <<>>

\* the enums a popped node adds (lines 873-893): none or one
NodeEnums(node) ==
    IF HasTag(node, "command") /\ literal(Elem(node, 1)) = Str(<<"c","r","e","a","t","e","_","e","n","u","m">>)
    THEN EnumOfArgs(extract_args(Elem(node, 2)))
    ELSE <<>>

RECURSIVE StackTraversal(_)
RECURSIVE StackChildren(_)
\* the entries appended to a list, tagged with the list
Entries(list, hashes) == [i \in DOMAIN hashes |-> <<list, hashes[i]>>]

\* the loop "until stack.empty?" from the moment node is popped until the stack
\* is back to what lay under it: node is examined, its Array children are
\* pushed in order, and the child on top, the last one, is popped next, with
\* everything below it, before the child pushed before it.  The result is
\* what the loop appended meanwhile, in order: <<"tables", hash>> for an
\* entry of tables, <<"enums", hash>> for an entry of enums.
StackTraversal(node) ==
    Entries("tables", NodeTables(node))
    \o Entries("enums", NodeEnums(node))
    \o StackChildren(SelectSeq(node.a, IsArray))

\* the children popped last to first
StackChildren(children) ==
    Flatten([k \in 1..Len(children) |-> StackTraversal(children[Len(children) - k + 1])])

\* the entries appended to one of the two lists
SecondOf(entries) == [i \in DOMAIN entries |-> entries[i][2]]

Appended(found, list) == SecondOf(SelectSeq(found, LAMBDA entry : entry[1] = list))

\* the escape of one character in a JSON string
JsonEscape(c) ==
    CASE c = "\"" -> <<"\\", "\"">>
      [] c = "\\" -> <<"\\", "\\">>
      [] c = "\n" -> <<"\\", "n">>
      [] OTHER    -> <<c>>

RECURSIVE JSONGenerate(_)
\* JSON.generate: the compact text of a value
JSONGenerate(v) ==
    CASE v.t = "null"    -> <<"n","u","l","l">>
      [] v.t = "boolean" -> IF v.b THEN <<"t","r","u","e">> ELSE <<"f","a","l","s","e">>
      [] v.t = "number"  -> RubyToS(v)
      [] v.t = "array"   -> <<"[">> \o JoinWith([i \in DOMAIN v.a |-> JSONGenerate(v.a[i])], <<",">>) \o <<"]">>
      [] v.t = "object"  -> <<"{">> \o JoinWith([i \in DOMAIN v.o |->
                                <<"\"">> \o Flatten([j \in DOMAIN v.o[i][1] |-> JsonEscape(v.o[i][1][j])]) \o <<"\"", ":">>
                                \o JSONGenerate(v.o[i][2])], <<",">>) \o <<"}">>
      [] OTHER           -> <<"\"">> \o Flatten([j \in DOMAIN v.s |-> JsonEscape(v.s[j])]) \o <<"\"">>

\* the message of line 808 (Japanese in the source: "Ripper could not build
\* the AST"), kept as one symbol
RipperFailureMessage == <<"Ripper could not build the AST">>

\* lines 900-907 and 910-917: the document printed, with its exit status
ScriptOutput(tables, enums, errors, status) ==
    [stdout |-> JSONGenerate(Obj(<< <<<<"t","a","b","l","e","s">>, Arr(tables)>>, <<<<"e","n","u","m","s">>, Arr(enums)>>,
                                    <<<<"e","r","r","o","r","s">>, Arr(errors)>>, <<<<"w","a","r","n","i","n","g","s">>, Arr(<<>>)>> >>)) \o <<"\n">>,
     status |-> status]

ScriptFound(found) == ScriptOutput(Appended(found, "tables"), Appended(found, "enums"), <<>>, 0)

\* the run of the script on a source whose Ripper tree is sexp (nil for a text
\* Ripper cannot parse): what it prints and its exit status
rubyFallback(sexp) ==
    IF sexp = Null
    THEN ScriptOutput(<<>>, <<>>, <<Str(RipperFailureMessage)>>, 1)
    ELSE ScriptFound(StackTraversal(sexp))

\* --- the tree Ripper.sexp builds for a schema text
\* a position [line, column]; the script never reads positions
Pos == Arr(<<Num(1), Num(0)>>)

\* a scanner token [:@type, "text", [line, column]]
RipperToken(type, text) == Arr(<<Tag(type), Str(text), Pos>>)

RECURSIVE RipperLiteral(_)
RipperLiteral(v) ==
    CASE v.t = "string"  -> Arr(<<Tag("string_literal"),
                                  Arr(<<Tag("string_content")>>
                                      \o (IF v.s = <<>> THEN <<>> ELSE <<RipperToken("@tstring_content", v.s)>>))>>)
      [] v.t = "symbol"  -> Arr(<<Tag("symbol_literal"), Arr(<<Tag("symbol"), RipperToken("@ident", v.s)>>)>>)
      [] v.t = "number"  -> RipperToken("@int", StringOf(v))
      [] v.t = "array"   -> Arr(<<Tag("array"),
                                  IF v.a = <<>> THEN Null ELSE Arr([i \in DOMAIN v.a |-> RipperLiteral(v.a[i])])>>)
      [] OTHER           -> Arr(<<Tag("var_ref"), RipperToken("@kw", IF v.t = "null" THEN <<"n","i","l">> ELSE StringOf(v))>>)

\* key: value, ... at the end of an argument list
RipperOptions(options) ==
    Arr(<<Tag("bare_assoc_hash"),
          Arr([i \in DOMAIN options |->
                 Arr(<<Tag("assoc_new"), RipperToken("@label", options[i][1] \o <<":">>),
                       RipperLiteral(options[i][2])>>)])>>)

\* an argument list without parentheses
RipperArgs(positional, options) ==
    Arr(<<Tag("args_add_block"),
          Arr([i \in DOMAIN positional |-> RipperLiteral(positional[i])]
              \o (IF options = <<>> THEN <<>> ELSE <<RipperOptions(options)>>)),
          Bool(FALSE)>>)

\* a statement of a block
RipperStatement(stmt) ==
    LET positional == IF stmt.name = Undefined THEN <<>> ELSE <<stmt.name>>
        noArgs == positional = <<>> /\ stmt.options = <<>>
        receiver == Arr(<<Tag("var_ref"), RipperToken("@ident", <<"t">>)>>)
        period == RipperToken("@period", <<".">>)
        method == RipperToken("@ident", stmt.method)
    IN  CASE stmt.form = "assign"
                -> Arr(<<Tag("assign"), Arr(<<Tag("var_field"), RipperToken("@ident", <<"x">>)>>),
                         RipperToken("@int", <<"1">>)>>)
          [] stmt.form = "recv" /\ noArgs
                -> Arr(<<Tag("call"), receiver, period, method>>)
          [] stmt.form = "recv" /\ ~noArgs
                -> Arr(<<Tag("command_call"), receiver, period, method, RipperArgs(positional, stmt.options)>>)
          [] stmt.form = "paren"
                -> Arr(<<Tag("method_add_arg"), Arr(<<Tag("call"), receiver, period, method>>),
                         Arr(<<Tag("arg_paren"), IF noArgs THEN Null ELSE RipperArgs(positional, stmt.options)>>)>>)
          [] stmt.form = "bare" /\ noArgs
                -> Arr(<<Tag("vcall"), method>>)
          [] OTHER
                -> Arr(<<Tag("command"), method, RipperArgs(positional, stmt.options)>>)

\* a list of statements; an empty one holds a void statement
RipperStatements(nodes) == Arr(IF nodes = <<>> THEN <<Arr(<<Tag("void_stmt")>>)>> ELSE nodes)

\* a top-level item: create_table "name" do |t| ... end, or create_enum "name", [...]
RipperItem(item) ==
    IF item.kind = "table"
    THEN Arr(<<Tag("method_add_block"),
               Arr(<<Tag("command"), RipperToken("@ident", <<"c","r","e","a","t","e","_","t","a","b","l","e">>), RipperArgs(<<Str(item.name)>>, <<>>)>>),
               Arr(<<Tag("do_block"),
                     Arr(<<Tag("block_var"),
                           Arr(<<Tag("params"), Arr(<<RipperToken("@ident", <<"t">>)>>), Null, Null, Null, Null, Null, Null>>),
                           Bool(FALSE)>>),
                     Arr(<<Tag("bodystmt"),
                           RipperStatements([i \in DOMAIN item.statements |-> RipperStatement(item.statements[i])]),
                           Null, Null, Null>>)>>)>>)
    ELSE Arr(<<Tag("command"), RipperToken("@ident", <<"c","r","e","a","t","e","_","e","n","u","m">>),
               RipperArgs(<<Str(item.name), Arr(item.values)>>, <<>>)>>)

\* Ripper.sexp of the text of a schema
RipperProgram(schema) ==
    Arr(<<Tag("program"), RipperStatements([i \in DOMAIN schema |-> RipperItem(schema[i])])>>)


(***************************************************************************)
(* JSON.parse, for the documents the model meets: objects, arrays, strings *)
(* with the escapes of JsonEscape, integers without fraction or exponent,  *)
(* true, false and null.  A parse step yields [ok, v, next]: the value and *)
(* the index after it.                                                     *)
(***************************************************************************)
IsJsonWhitespace(c) == c \in {" ", "\n", "\t", "\r"}

RECURSIVE SkipWhitespace(_, _)
SkipWhitespace(text, i) ==
    IF i <= Len(text) /\ IsJsonWhitespace(text[i]) THEN SkipWhitespace(text, i + 1) ELSE i

ParseFailure == [ok |-> FALSE, v |-> Null, next |-> 0]

ParseDone(v, next) == [ok |-> TRUE, v |-> v, next |-> next]

\* the character an escape \c stands for, "" when \c is no escape of the model
JsonUnescape(c) ==
    CASE c = "\"" -> "\""
      [] c = "\\" -> "\\"
      [] c = "/"  -> "/"
      [] c = "n"  -> "\n"
      [] c = "t"  -> "\t"
      [] c = "r"  -> "\r"
      [] OTHER    -> ""

\* the number of backslashes in a row that end just before index j, counted
\* back to index i at most
BackslashesBefore(text, i, j) ==
    IF j <= i \/ text[j - 1] # "\\" THEN 0
    ELSE Cardinality({k \in 1..(j - i) : \A m \in 1..k : text[j - m] = "\\"})

\* index j holds a quote or a character that no backslash escapes
IsUnescaped(text, i, j) == BackslashesBefore(text, i, j) % 2 = 0

\* index j holds the quote that closes the string whose first character is at i
IsClosingQuote(text, i, j) == text[j] = "\"" /\ IsUnescaped(text, i, j)

\* the rest of a string after its opening quote, from index i: it runs to the
\* first unescaped quote; every escape must be one of JsonUnescape and no
\* control character may stand in it
ParseJsonString(text, i) ==
    LET end == CHOOSE j \in i..Len(text) :
                   IsClosingQuote(text, i, j) /\ \A k \in i..(j - 1) : text[k] # "\"" \/ ~IsUnescaped(text, i, k)
        chars == [p \in 1..(end - i) |->
                    LET c == text[i + p - 1] IN
                    IF ~IsUnescaped(text, i, i + p - 1) THEN JsonUnescape(c)
                    ELSE IF c = "\\" THEN "skip"
                    ELSE IF c \in {"\n", "\t", "\r"} THEN ""
                    ELSE c]
    IN  IF ~\E j \in i..Len(text) : IsClosingQuote(text, i, j) THEN ParseFailure
        ELSE IF \E p \in DOMAIN chars : chars[p] = "" THEN ParseFailure
        ELSE ParseDone(Str(SelectSeq(chars, LAMBDA c : c # "skip")), end + 1)

RECURSIVE DigitsEnd(_, _)
\* the index after the run of digits starting at i
DigitsEnd(text, i) == IF i <= Len(text) /\ IsDigit(text[i]) THEN DigitsEnd(text, i + 1) ELSE i

\* -?(0|[1-9][0-9]*)
ParseJsonNumber(text, i) ==
    LET start == IF text[i] = "-" THEN i + 1 ELSE i
        end == DigitsEnd(text, start)
    IN  IF end = start THEN ParseFailure
        ELSE IF text[start] = "0" /\ end > start + 1 THEN ParseFailure
        ELSE IF end <= Len(text) /\ text[end] \in {".", "e", "E"} THEN ParseFailure
        ELSE ParseDone(Num((IF start = i THEN 1 ELSE -1) * StringToNat(SubSeq(text, start, end - 1))), end)

\* text has word at index i
HasWordAt(text, i, word) == i + Len(word) - 1 <= Len(text) /\ SubSeq(text, i, i + Len(word) - 1) = word

RECURSIVE ParseJsonValue(_, _)
RECURSIVE ParseJsonElements(_, _, _, _)
RECURSIVE ParseJsonMembers(_, _, _, _)

ParseJsonValue(text, i) ==
    IF i > Len(text) THEN ParseFailure
    ELSE CASE text[i] = "{"  -> ParseJsonMembers(text, SkipWhitespace(text, i + 1), Obj(<<>>), TRUE)
           [] text[i] = "["  -> ParseJsonElements(text, SkipWhitespace(text, i + 1), <<>>, TRUE)
           [] text[i] = "\"" -> ParseJsonString(text, i + 1)
           [] text[i] = "-" \/ IsDigit(text[i]) -> ParseJsonNumber(text, i)
           [] HasWordAt(text, i, <<"t","r","u","e">>)  -> ParseDone(Bool(TRUE), i + 4)
           [] HasWordAt(text, i, <<"f","a","l","s","e">>) -> ParseDone(Bool(FALSE), i + 5)
           [] HasWordAt(text, i, <<"n","u","l","l">>)  -> ParseDone(Null, i + 4)
           [] OTHER -> ParseFailure

\* the elements of an array from index i, after "[" (first) or after ","
ParseJsonElements(text, i, acc, first) ==
    IF first /\ i <= Len(text) /\ text[i] = "]" THEN ParseDone(Arr(acc), i + 1)
    ELSE LET element == ParseJsonValue(text, i)
             j == SkipWhitespace(text, element.next)
         IN  IF ~element.ok \/ j > Len(text) THEN ParseFailure
             ELSE IF text[j] = "," THEN ParseJsonElements(text, SkipWhitespace(text, j + 1), Append(acc, element.v), FALSE)
             ELSE IF text[j] = "]" THEN ParseDone(Arr(Append(acc, element.v)), j + 1)
             ELSE ParseFailure

\* the members of an object from index i, after "{" (first) or after ","
ParseJsonMembers(text, i, obj, first) ==
    IF first /\ i <= Len(text) /\ text[i] = "}" THEN ParseDone(obj, i + 1)
    ELSE IF i > Len(text) \/ text[i] # "\"" THEN ParseFailure
    ELSE LET key == ParseJsonString(text, i + 1)
             colon == SkipWhitespace(text, key.next)
             value == ParseJsonValue(text, SkipWhitespace(text, colon + 1))
             j == SkipWhitespace(text, value.next)
         IN  IF ~key.ok \/ colon > Len(text) \/ text[colon] # ":" THEN ParseFailure
             ELSE IF ~value.ok \/ j > Len(text) THEN ParseFailure
             ELSE IF text[j] = "," THEN ParseJsonMembers(text, SkipWhitespace(text, j + 1), Put(obj, key.v.s, value.v), FALSE)
             ELSE IF text[j] = "}" THEN ParseDone(Put(obj, key.v.s, value.v), j + 1)
             ELSE ParseFailure

\* JSON.parse(text): [ok, value]; ok is FALSE where JSON.parse throws a SyntaxError
JSONParse(text) ==
    LET parsed == ParseJsonValue(text, SkipWhitespace(text, 1))
    IN  IF parsed.ok /\ SkipWhitespace(text, parsed.next) > Len(text)
        THEN [ok |-> TRUE, value |-> parsed.v]
        ELSE [ok |-> FALSE, value |-> Undefined]

\* the message of the SyntaxError of JSON.parse, kept as one symbol
JsonSyntaxErrorMessage == <<"SyntaxError: not valid JSON">>

(***************************************************************************)
(* Fallback path: parseWithRubyFallback (lines 530-634).  result is what   *)
(* spawnSync returned: [error, stdout, status], error being Null or the    *)
(* message of the launch error, status a number or Null.                   *)
(***************************************************************************)
\* a call that ends by an exception instead of a value
Thrown(message) == [threw |-> TRUE, message |-> message]

Threw(value) == "threw" \in DOMAIN value

\* the warning without the reason the primary parser was unavailable
FallbackWarning_NoReason(known, unknown) == unknown

\* the fixed texts of the warnings and errors (Japanese in the source), kept as
\* one symbol each; the load-error message is appended where the source
\* interpolates it
FallbackWarning(known, unknown) ==
    IF prismLoadError # Null THEN known \o prismLoadError.s ELSE unknown

LaunchWarning ==
    FallbackWarning(<<"could not load @ruby/prism and the Ruby fallback failed: ">>,
                    <<"running the Ruby fallback parser failed.">>)

DecodeWarning ==
    FallbackWarning(<<"could not load @ruby/prism and the Ruby fallback result could not be read: ">>,
                    <<"the Ruby fallback result could not be read.">>)

FallbackUsedWarning ==
    FallbackWarning(<<"could not load @ruby/prism, used the Ruby Ripper fallback: ">>,
                    <<"@ruby/prism not found, used the Ruby Ripper fallback.">>)

ExitStatusError(status) ==
    <<"Ruby fallback failed with exit status ">> \o StringOf(status) \o <<".">>

\* a property read on an element that is null throws a TypeError
HasNullElement(list) == IsArray(list) /\ \E i \in DOMAIN list.a : list.a[i] = Null

\* lines 578-593: the ColumnDefinition of a payload column
FallbackColumn(column) ==
    LET options == IF isRecord(Get(column, <<"o","p","t","i","o","n","s">>)) THEN Get(column, <<"o","p","t","i","o","n","s">>) ELSE Obj(<<>>)
        given == Get(column, <<"e","n","u","m","N","a","m","e">>)
        raw == Coalesce3(Get(options, <<"e","n","u","m","_","t","y","p","e">>), Get(options, <<"e","n","u","m">>), Get(options, <<"n","a","m","e">>))
        enumName == IF ~Truthy(given) /\ Get(column, <<"t","y","p","e">>) = Str(S_enum)
                    THEN (IF IsString(raw) /\ raw.s # <<>> THEN Str(classifyTableName(raw)) ELSE given)
                    ELSE given
    IN  [name |-> Get(column, <<"n","a","m","e">>).s, type |-> Get(column, <<"t","y","p","e">>).s,
         options |-> options, enumName |-> enumName]

RECURSIVE FallbackColumnList(_)
\* the filter and the map of lines 575-593 over the elements of columns
FallbackColumnList(columns) ==
    IF columns = <<>> THEN <<>>
    ELSE (IF IsString(Get(Head(columns), <<"n","a","m","e">>)) /\ IsString(Get(Head(columns), <<"t","y","p","e">>))
          THEN <<FallbackColumn(Head(columns))>> ELSE <<>>)
         \o FallbackColumnList(Tail(columns))

\* lines 573-594: the columns of a payload table
FallbackColumns(columns) == IF ~IsArray(columns) THEN <<>> ELSE FallbackColumnList(columns.a)

RECURSIVE FallbackTableList(_)
\* the filter and the map of lines 569-595 over the elements of payload.tables
FallbackTableList(tables) ==
    IF tables = <<>> THEN <<>>
    ELSE (IF IsString(Get(Head(tables), <<"n","a","m","e">>))
          THEN << [name |-> Get(Head(tables), <<"n","a","m","e">>).s,
                   className |-> classifyTableName(Get(Head(tables), <<"n","a","m","e">>)),
                   columns |-> FallbackColumns(Get(Head(tables), <<"c","o","l","u","m","n","s">>))] >>
          ELSE <<>>)
         \o FallbackTableList(Tail(tables))

\* lines 567-596
FallbackTables(tables) == IF ~IsArray(tables) THEN <<>> ELSE FallbackTableList(tables.a)

RECURSIVE StringsOnly(_)
\* values.filter((value) => typeof value === 'string')
StringsOnly(values) ==
    IF values = <<>> THEN <<>>
    ELSE (IF IsString(Head(values)) THEN <<Head(values).s>> ELSE <<>>) \o StringsOnly(Tail(values))

\* lines 604-606
FallbackValues(values) == IF ~IsArray(values) THEN <<>> ELSE StringsOnly(values.a)

RECURSIVE FallbackEnumList(_)
\* the filter and the map of lines 600-607 over the elements of payload.enums
FallbackEnumList(enums) ==
    IF enums = <<>> THEN <<>>
    ELSE (IF IsString(Get(Head(enums), <<"n","a","m","e">>))
          THEN << [name |-> Get(Head(enums), <<"n","a","m","e">>).s,
                   className |-> classifyTableName(Get(Head(enums), <<"n","a","m","e">>)),
                   values |-> FallbackValues(Get(Head(enums), <<"v","a","l","u","e","s">>))] >>
          ELSE <<>>)
         \o FallbackEnumList(Tail(enums))

\* lines 598-608
FallbackEnums(enums) == IF ~IsArray(enums) THEN <<>> ELSE FallbackEnumList(enums.a)

RECURSIVE StringsOf(_)
\* list.map((entry) => String(entry))
StringsOf(list) == IF list = <<>> THEN <<>> ELSE <<StringOf(Head(list))>> \o StringsOf(Tail(list))

\* payload.warnings.map(String), payload.errors.map(String)
FallbackStrings(list) == IF ~IsArray(list) THEN <<>> ELSE StringsOf(list.a)

\* a property of null is read: of the payload, or of a table, column or enum
PayloadThrows(payload) ==
    \/ payload = Null
    \/ HasNullElement(Get(payload, <<"t","a","b","l","e","s">>))
    \/ HasNullElement(Get(payload, <<"e","n","u","m","s">>))
    \/ /\ IsArray(Get(payload, <<"t","a","b","l","e","s">>))
       /\ \E i \in DOMAIN Get(payload, <<"t","a","b","l","e","s">>).a :
             /\ IsString(Get(Get(payload, <<"t","a","b","l","e","s">>).a[i], <<"n","a","m","e">>))
             /\ HasNullElement(Get(Get(payload, <<"t","a","b","l","e","s">>).a[i], <<"c","o","l","u","m","n","s">>))

\* JSON.parse(result.stdout || '{}')
DecodedOutput(result) == JSONParse(IF result.stdout = <<>> THEN <<"{", "}">> ELSE result.stdout)

\* lines 567-633: the result once the output is decoded
DecodedResult(result, payload) ==
    IF PayloadThrows(payload) THEN Thrown(<<"TypeError: cannot read properties of null">>)
    ELSE [tables |-> FallbackTables(Get(payload, <<"t","a","b","l","e","s">>)),
          enums |-> FallbackEnums(Get(payload, <<"e","n","u","m","s">>)),
          diagnostics |->
             [errors |-> FallbackStrings(Get(payload, <<"e","r","r","o","r","s">>))
                         \o (IF result.status # Num(0) THEN <<ExitStatusError(result.status)>> ELSE <<>>),
              warnings |-> Append(FallbackStrings(Get(payload, <<"w","a","r","n","i","n","g","s">>)), FallbackUsedWarning)]]

\* lines 550-565 and on: decoded is what JSON.parse made of the output
DecodeOutcome(result, decoded) ==
    IF ~decoded.ok
    THEN [tables |-> <<>>, enums |-> <<>>,
          diagnostics |-> [errors |-> <<JsonSyntaxErrorMessage>>, warnings |-> <<DecodeWarning>>]]
    ELSE DecodedResult(result, decoded.value)

\* parseWithRubyFallback(schemaContent)
parseWithRubyFallback(schemaContent, result) ==
    IF result.error # Null
    THEN [tables |-> <<>>, enums |-> <<>>,
          diagnostics |-> [errors |-> <<result.error.s>>, warnings |-> <<LaunchWarning>>]]
    ELSE DecodeOutcome(result, DecodedOutput(result))

(***************************************************************************)
(* Entry points (lines 636-668).  prism and spawn are what the two AST     *)
(* providers do with the schema text; only the one of the backend in use   *)
(* is run.                                                                 *)
(***************************************************************************)
\* parseRailsSchema(schemaContent)
parseRailsSchema(schemaContent, prism, spawn) ==
    IF prismParse THEN parseWithPrism(schemaContent, prism)
    ELSE parseWithRubyFallback(schemaContent, spawn)

\* Mutant: a parse that failed is tried again in the subprocess.
parseWithPrismCalls_WithFallback == <<"prismParse", "spawnSync">>

\* the backend invocations of one call: parseWithPrism calls prismParse once
\* (inside its try block), parseWithRubyFallback calls spawnSync once
parseWithPrismCalls == <<"prismParse">>

parseWithRubyFallbackCalls == <<"spawnSync">>

\* Mutant: once a call was made the subprocess is used.
parseRailsSchemaCalls_Reselected ==
    IF prismParse /\ invoked = <<>> THEN parseWithPrismCalls ELSE parseWithRubyFallbackCalls

\* the backend invocations of parseRailsSchema(schemaContent)
parseRailsSchemaCalls ==
    IF prismParse THEN parseWithPrismCalls ELSE parseWithRubyFallbackCalls

\* Mutant: the blank line after the namespace declaration is left out.
prefixNamespace_NoBlankLine(content, namespace) ==
    IF ~Truthy(namespace) THEN content \o <<"\n">>
    ELSE JoinWith(<< <<"n","a","m","e","s","p","a","c","e">> \o <<" ">> \o StringOf(namespace) \o <<";">>, content, <<>> >>, <<"\n">>)

\* prefixNamespace(content, namespace)
prefixNamespace(content, namespace) ==
    IF ~Truthy(namespace) THEN content \o <<"\n">>
    ELSE JoinWith(<< <<"n","a","m","e","s","p","a","c","e">> \o <<" ">> \o StringOf(namespace) \o <<";">>, <<>>, content, <<>> >>, <<"\n">>)

\* lines 656-662: the document of a table
ModelDocument(table, namespace) ==
    [name |-> table.className \o <<".","t","s","p">>, tableName |-> table.name,
     content |-> prefixNamespace(renderModel(table), namespace)]

\* lines 650-654: the document of an enum
EnumDocument(definition, namespace) ==
    [name |-> definition.className \o <<".","t","s","p">>, enumName |-> definition.name,
     content |-> prefixNamespace(renderEnum(definition), namespace)]

\* lines 645-667: the result for the parsed schema; an exception of
\* parseRailsSchema propagates
Generated(parsed, namespace) ==
    IF Threw(parsed) THEN parsed
    ELSE [models |-> [i \in DOMAIN parsed.tables |-> ModelDocument(parsed.tables[i], namespace)],
          enums |-> [i \in DOMAIN parsed.enums |-> EnumDocument(parsed.enums[i], namespace)],
          tables |-> parsed.tables,
          diagnostics |-> parsed.diagnostics]

\* generateTypespecFromRailsSchema(schemaContent, options)
generateTypespecFromRailsSchema(schemaContent, options, prism, spawn) ==
    Generated(parseRailsSchema(schemaContent, prism, spawn), Get(options, <<"n","a","m","e","s","p","a","c","e">>))


(***************************************************************************)
(* Specification of the pipeline: one call of parseRailsSchema or of       *)
(* generateTypespecFromRailsSchema, by the backend that loadPrismParser    *)
(* chose when the module was loaded, on a schema and provider behaviour    *)
(* drawn from bounded sets.  An invocation is                              *)
(*   [fn, schema, options, provider]                                       *)
(* provider = [outcome, style, stdout, status] says what the AST provider  *)
(* of the chosen backend does with the schema text:                        *)
(*   "ok"      it parses the text (Prism: a tree in convention style;      *)
(*             fallback: the script runs on the Ripper tree)               *)
(*   "syntax"  it finds the text malformed (Prism: a result with errors;   *)
(*             fallback: Ripper.sexp returns nil)                          *)
(*   "throws"  the parse call of Prism throws                              *)
(*   "launch"  the ruby subprocess cannot be started                       *)
(*   "output"  the subprocess prints stdout and exits with status          *)
(***************************************************************************)
MaxStatements == 2
MaxItems == 2

\* the statements written in a create_table block
BlockStatements == {
    Stmt("recv",   <<"s","t","r","i","n","g">>,     Str(<<"n">>), <<>>),
    Stmt("recv",   <<"s","t","r","i","n","g">>,     Str(<<"n">>), << <<S_null, Bool(FALSE)>> >>),
    Stmt("paren",  <<"i","n","t","e","g","e","r">>,    Str(<<"a">>), << <<S_limit, Num(25)>> >>),
    Stmt("recv",   S_enum,       Str(<<"s">>), << <<<<"e","n","u","m","_","t","y","p","e">>, Str(<<"s","_","t">>)>> >>),
    Stmt("recv",   S_references, Str(<<"u">>), << <<S_polymorphic, Bool(TRUE)>> >>),
    Stmt("bare",   <<"s","t","r","i","n","g">>,     Str(<<"b">>), <<>>),
    Stmt("recv",   <<"t","i","m","e","s","t","a","m","p","s">>, Undefined,    <<>>),
    Stmt("bare",   <<"t","i","m","e","s","t","a","m","p","s">>, Undefined,    <<>>),
    Stmt("paren",  <<"t","i","m","e","s","t","a","m","p","s">>, Undefined,    << <<S_null, Bool(TRUE)>> >>),
    Stmt("assign", <<"x">>,      Undefined,    <<>>) }

TableItem(name, statements) == [kind |-> "table", name |-> name, statements |-> statements]

EnumItem(name, values) == [kind |-> "enum", name |-> name, values |-> values]

\* a schema of one table
OneTable(statements) == << TableItem(<<"u","s","e","r","s">>, statements) >>

\* the items of the schemas of several items
SchemaItems == {
    TableItem(<<"u","s","e","r","s">>, << Stmt("recv", <<"s","t","r","i","n","g">>, Str(<<"n">>), <<>>) >>),
    TableItem(<<"l","o","g","_","x">>, << Stmt("recv", <<"t","i","m","e","s","t","a","m","p","s">>, Undefined, <<>>) >>),
    EnumItem(<<"s","_","t">>, << Str(<<"o","n">>), Str(<<"o","f","f">>) >>),
    EnumItem(<<"k","i","n","d">>, << Str(<<"a"," ","b">>), Num(3) >>) }

Schemas ==
    {OneTable(statements) : statements \in SeqsUpTo(BlockStatements, MaxStatements)}
    \cup SeqsUpTo(SchemaItems, MaxItems)

\* the texts a subprocess may print instead of the document of the script
PrintedOutputs == {
    <<>>,
    <<"x">>,
    <<"{">>,
    <<"[", "1", ",">>,
    <<"{", "}">>,
    <<"[", "]">>,
    <<"n","u","l","l">>,
    <<"{","\"","t","a","b","l","e","s","\"",":","[","{","\"","n","a","m","e","\"",":","\"","a","\"","}","]",",">>,
    <<"{","\"","t","a","b","l","e","s","\"",":","[","{","\"","n","a","m","e","\"",":","\"","a","\"","}","]",",",
      "\"","e","r","r","o","r","s","\"",":","[","\"","e","\"","]",",",
      "\"","w","a","r","n","i","n","g","s","\"",":","[","\"","w","\"","]","}","\n">>,
    <<"{","\"","t","a","b","l","e","s","\"",":","[","{","\"","n","a","m","e","\"",":","\"","a","\"",",","\"","c","o","l","u","m","n","s","\"",":","[","{","\"","n","a","m","e","\"",":","\"","n","\"",",","\"","t","y","p","e","\"",":","\"","s","t","r","i","n","g","\"",",","\"","e","n","u","m","N","a","m","e","\"",":","\"","X","\"","}","]","}","]","}">> }

ExitStatuses == {Num(0), Num(1), Null}

Provider(outcome, style, stdout, status) ==
    [outcome |-> outcome, style |-> style, stdout |-> stdout, status |-> status]

PrismProviders ==
    {Provider(outcome, style, <<>>, Null) : outcome \in {"ok", "syntax", "throws"}, style \in {"type", "kind"}}

SpawnProviders ==
    {Provider(outcome, "none", <<>>, Null) : outcome \in {"ok", "syntax", "launch"}}
    \cup {Provider("output", "none", stdout, status) : stdout \in PrintedOutputs, status \in ExitStatuses}

NamespaceOptions == {Obj(<<>>), Obj(<< <<<<"n","a","m","e","s","p","a","c","e">>, Str(<<>>)>> >>), Obj(<< <<<<"n","a","m","e","s","p","a","c","e">>, Str(<<"A","p","p">>)>> >>)}

\* the invocations: every schema with a provider that parses it; the other
\* provider behaviours do not read the schema and come with the schemas of
\* several items
Invocations(providers) ==
    {[fn |-> "parseRailsSchema", schema |-> schema, options |-> Obj(<<>>), provider |-> provider] :
        schema \in Schemas, provider \in {p \in providers : p.outcome = "ok"}}
    \cup {[fn |-> "parseRailsSchema", schema |-> schema, options |-> Obj(<<>>), provider |-> provider] :
        schema \in SeqsUpTo(SchemaItems, 1), provider \in {p \in providers : p.outcome # "ok"}}
    \cup {[fn |-> "generateTypespecFromRailsSchema", schema |-> schema, options |-> options, provider |-> provider] :
        schema \in SeqsUpTo(SchemaItems, MaxItems), options \in NamespaceOptions,
        provider \in {p \in providers : p.outcome \in {"ok", "launch"}}}

\* the result object of a parse: the tree under ast or value, errors, warnings
PrismResult(style, items, errors, warnings) ==
    [throws |-> FALSE, message |-> <<>>,
     result |-> Obj(<< <<IF style = "type" THEN <<"a","s","t">> ELSE <<"v","a","l","u","e">>, PrismProgram(style, items, SchemaSource(items))>>,
                       <<<<"e","r","r","o","r","s">>, Arr(errors)>>, <<<<"w","a","r","n","i","n","g","s">>, Arr(warnings)>> >>)]

\* what prismParse(schemaContent, {json: true}) does
PrismRun(provider, schema) ==
    CASE provider.outcome = "throws"
            -> [throws |-> TRUE, message |-> <<"prism: parse failed">>, result |-> Null]
      [] provider.outcome = "syntax"
            -> PrismResult(provider.style, <<>>,
                           << Obj(<< <<<<"m","e","s","s","a","g","e">>, Str(<<"unexpected end of file">>)>> >>) >>,
                           << Str(<<"unused variable">>) >>)
      [] OTHER
            -> PrismResult(provider.style, schema, <<>>, <<>>)

\* the result of a subprocess that ran the script
Exited(run) == [error |-> Null, stdout |-> run.stdout, status |-> Num(run.status)]

\* what spawnSync('ruby', [rubyFallbackScriptPath], {input: schemaContent}) returns
SpawnRun(provider, schema) ==
    CASE provider.outcome = "launch"
            -> [error |-> Str(<<"spawnSync ruby ENOENT">>), stdout |-> <<>>, status |-> Null]
      [] provider.outcome = "output"
            -> [error |-> Null, stdout |-> provider.stdout, status |-> provider.status]
      [] OTHER
            -> Exited(rubyFallback(IF provider.outcome = "syntax" THEN Null ELSE RipperProgram(schema)))

Init ==
    /\ loadPrismParser
    /\ invoked = <<>>
    /\ op = "none" /\ ret = Undefined
    /\ arg \in Invocations(IF prismParse THEN PrismProviders ELSE SpawnProviders)

ParseRailsSchema ==
    /\ op = "none"
    /\ arg.fn = "parseRailsSchema"
    /\ op' = "parseRailsSchema"
    /\ ret' = parseRailsSchema(SchemaSource(arg.schema), PrismRun(arg.provider, arg.schema),
                                SpawnRun(arg.provider, arg.schema))
    /\ invoked' = invoked \o parseRailsSchemaCalls
    /\ UNCHANGED <<prismParse, prismLoadError, arg>>

GenerateTypespecFromRailsSchema ==
    /\ op = "none"
    /\ arg.fn = "generateTypespecFromRailsSchema"
    /\ op' = "generateTypespecFromRailsSchema"
    /\ ret' = generateTypespecFromRailsSchema(SchemaSource(arg.schema), arg.options,
                                              PrismRun(arg.provider, arg.schema),
                                              SpawnRun(arg.provider, arg.schema))
    /\ invoked' = invoked \o parseRailsSchemaCalls
    /\ UNCHANGED <<prismParse, prismLoadError, arg>>

Next == ParseRailsSchema \/ GenerateTypespecFromRailsSchema

Spec == Init /\ [][Next]_vars

(***************************************************************************)
(* Specification of a process that calls parseRailsSchema several times:   *)
(* the module is loaded once, every call draws its own schema text and its *)
(* own behaviour of the backend.                                           *)
(***************************************************************************)
MaxCalls == 2

\* the calls of a sequence: schemas of at most one item, every behaviour of
\* the backend
RepeatedInvocations(providers) ==
    {[fn |-> "parseRailsSchema", schema |-> schema, options |-> Obj(<<>>), provider |-> provider] :
        schema \in SeqsUpTo(SchemaItems, 1), provider \in providers}

CallsInit ==
    /\ loadPrismParser
    /\ invoked = <<>>
    /\ op = "none" /\ ret = Undefined
    /\ arg \in RepeatedInvocations(IF prismParse THEN PrismProviders ELSE SpawnProviders)

\* the caller takes the result and prepares the next call
NextCall ==
    /\ op # "none"
    /\ Len(invoked) < MaxCalls
    /\ op' = "none" /\ ret' = Undefined
    /\ arg' \in RepeatedInvocations(IF prismParse THEN PrismProviders ELSE SpawnProviders)
    /\ UNCHANGED <<prismParse, prismLoadError, invoked>>

CallsNext == ParseRailsSchema \/ NextCall

SpecCalls == CallsInit /\ [][CallsNext]_vars

(***************************************************************************)
(* Specification of the class names: classifyTableName applied to names    *)
(* drawn from a bounded set, once and once more to its own result, and     *)
(* parseRailsSchema applied to a schema that uses the name as a table      *)
(* name, as an enum name and as the enum link of a column.                 *)
(***************************************************************************)
ClassNameAlphabet == {"a", "B", "_", " "}

ClassNames == {Str(s) : s \in StringsUpTo(ClassNameAlphabet, MaxNameLen)}

\* create_table "<name>" do |t| t.enum "s", enum_type: "<name>" end
\* create_enum "<name>", ["on"]
NamedSchema(name) ==
    << TableItem(name, << Stmt("recv", S_enum, Str(<<"s">>), << <<<<"e","n","u","m","_","t","y","p","e">>, Str(name)>> >>) >>),
       EnumItem(name, << Str(<<"o","n">>) >>) >>

ClassifyInit ==
    /\ loadPrismParser
    /\ invoked = <<>>
    /\ op = "none" /\ ret = Undefined
    /\ arg \in ClassNames

ClassifyTableName ==
    /\ op = "none"
    /\ op' = "classifyTableName"
    /\ ret' = Str(classifyTableName(arg))
    /\ UNCHANGED <<prismParse, prismLoadError, invoked, arg>>

\* the class name just produced is classified once more
ClassifyTableNameAgain ==
    /\ op = "classifyTableName"
    /\ op' = "classifyTableName again"
    /\ arg' = ret
    /\ ret' = Str(classifyTableName(ret))
    /\ UNCHANGED <<prismParse, prismLoadError, invoked>>

\* parseRailsSchema on the schema that uses the name, the backend parsing it
ParseNamedSchema ==
    /\ op = "none" /\ arg.s # <<>>
    /\ op' = "parseRailsSchema"
    /\ \E style \in {"type", "kind"} :
          ret' = parseRailsSchema(SchemaSource(NamedSchema(arg.s)),
                                  PrismRun(Provider("ok", style, <<>>, Null), NamedSchema(arg.s)),
                                  SpawnRun(Provider("ok", "none", <<>>, Null), NamedSchema(arg.s)))
    /\ invoked' = invoked \o parseRailsSchemaCalls
    /\ UNCHANGED <<prismParse, prismLoadError, arg>>

ClassifyNext == ClassifyTableName \/ ClassifyTableNameAgain \/ ParseNamedSchema

SpecClassify == ClassifyInit /\ [][ClassifyNext]_vars

(***************************************************************************)
(* The line-based generator (src/src/index.ts, src/src/generator): the     *)
(* schema text is read line by line, a create_table line opens a table, a  *)
(* line starting with end closes it, and the lines matching COLUMN_REGEX   *)
(* in between are its columns.                                             *)
(***************************************************************************)
\* TYPE_MAP, as <<raw type, TypeSpec type>>
TYPE_MAP == <<
    <<<<"s","t","r","i","n","g">>, <<"s","t","r","i","n","g">>>>, <<<<"t","e","x","t">>, <<"s","t","r","i","n","g">>>>, <<<<"i","n","t","e","g","e","r">>, <<"i","n","t","3","2">>>>, <<<<"b","i","g","i","n","t">>, <<"i","n","t","6","4">>>>,
    <<<<"f","l","o","a","t">>, <<"f","l","o","a","t","3","2">>>>, <<<<"d","e","c","i","m","a","l">>, <<"d","e","c","i","m","a","l">>>>, <<<<"b","o","o","l","e","a","n">>, <<"b","o","o","l","e","a","n">>>>,
    <<<<"d","a","t","e">>, <<"p","l","a","i","n","D","a","t","e">>>>, <<<<"d","a","t","e","t","i","m","e">>, <<"u","t","c","D","a","t","e","T","i","m","e">>>> >>

\* TYPE_MAP[rawType] ?? "unknown" (for the raw types that are not properties
\* inherited by every object)
mapColumnType(rawType) ==
    IF \E i \in DOMAIN TYPE_MAP : TYPE_MAP[i][1] = rawType
    THEN TYPE_MAP[CHOOSE i \in DOMAIN TYPE_MAP : TYPE_MAP[i][1] = rawType][2]
    ELSE <<"u","n","k","n","o","w","n">>

\* the character class \w
IsWordChar(c) == IsAlnum(c) \/ c = "_"

\* JavaScript's \s for the characters of a schema text
IsLineSpace(c) == c \in {" ", "\t", "\r", "\n"}

RECURSIVE WordEnd(_, _)
\* the position after the longest run of \w characters that starts at i
WordEnd(line, i) == IF i <= Len(line) /\ IsWordChar(line[i]) THEN WordEnd(line, i + 1) ELSE i

RECURSIVE SpaceEnd(_, _)
\* the position after the longest run of \s characters that starts at i
SpaceEnd(line, i) == IF i <= Len(line) /\ IsLineSpace(line[i]) THEN SpaceEnd(line, i + 1) ELSE i

\* the character of the line at position i is c
CharAt(line, i, c) == i >= 1 /\ i <= Len(line) /\ line[i] = c

\* COLUMN_REGEX = /t\.(\w+)\s+"(\w+)"(.*)/ matches at position i: the type ends
\* before w, the name stands between the quotes at q and c
ColumnMatchesAt(line, i, w, q, c) ==
    /\ CharAt(line, i, "t") /\ CharAt(line, i + 1, ".")
    /\ w > i + 2
    /\ q > w /\ CharAt(line, q, "\"")
    /\ c > q + 1 /\ CharAt(line, c, "\"")

ColumnMatchAt(line, i, w) ==
    ColumnMatchesAt(line, i, w, SpaceEnd(line, w), WordEnd(line, SpaceEnd(line, w) + 1))

\* the groups of the match at position i
ColumnGroups(line, i, w, q, c) ==
    [rawType |-> SubSeq(line, i + 2, w - 1), colName |-> SubSeq(line, q + 1, c - 1),
     modifierText |-> SubSeq(line, c + 1, Len(line))]

ColumnGroupsAt(line, i, w) ==
    ColumnGroups(line, i, w, SpaceEnd(line, w), WordEnd(line, SpaceEnd(line, w) + 1))

RECURSIVE ColumnMatchFrom(_, _)
\* line.match(COLUMN_REGEX): the groups of the leftmost match, or Null
ColumnMatchFrom(line, i) ==
    IF i > Len(line) THEN Null
    ELSE IF ColumnMatchAt(line, i, WordEnd(line, i + 2)) THEN ColumnGroupsAt(line, i, WordEnd(line, i + 2))
    ELSE ColumnMatchFrom(line, i + 1)

RECURSIVE QuoteAfter(_, _)
\* the position of the first double quote at or after i, or 0
QuoteAfter(line, i) ==
    IF i > Len(line) THEN 0 ELSE IF line[i] = "\"" THEN i ELSE QuoteAfter(line, i + 1)

RECURSIVE NameMatchFrom(_, _)
\* line.match(/"([^"]+)"/): the text between the first pair of double quotes
\* that encloses at least one character, or Null
NameMatchFrom(line, i) ==
    IF i > Len(line) THEN Null
    ELSE IF line[i] = "\"" /\ QuoteAfter(line, i + 1) > i + 1
    THEN Str(SubSeq(line, i + 1, QuoteAfter(line, i + 1) - 1))
    ELSE NameMatchFrom(line, i + 1)

\* line.startsWith(prefix)
StartsWithText(line, prefix) == Len(line) >= Len(prefix) /\ SubSeq(line, 1, Len(prefix)) = prefix

\* text.includes(part)
Includes(text, part) == FindOffset(text, part) # -1

RECURSIVE UpToComma(_)
\* [^,]+ : the characters before the first comma
UpToComma(text) == IF text = <<>> \/ Head(text) = "," THEN <<>> ELSE <<Head(text)>> \o UpToComma(Tail(text))

RECURSIVE DefaultMatchFrom(_, _)
\* modifierText.match(/default: ([^,]+)/)?.[1]
DefaultMatchFrom(text, i) ==
    IF i + Len(<<"d","e","f","a","u","l","t">>) + 1 > Len(text) THEN Undefined
    ELSE IF SubSeq(text, i, i + Len(<<"d","e","f","a","u","l","t">>) + 1) = <<"d","e","f","a","u","l","t">> \o <<":", " ">>
            /\ UpToComma(SubSeq(text, i + Len(<<"d","e","f","a","u","l","t">>) + 2, Len(text))) # <<>>
    THEN Str(UpToComma(SubSeq(text, i + Len(<<"d","e","f","a","u","l","t">>) + 2, Len(text))))
    ELSE DefaultMatchFrom(text, i + 1)

RECURSIVE TrimLine(_)
\* trim() of a line
TrimLine(rawLine) ==
    IF rawLine = <<>> THEN rawLine
    ELSE IF IsLineSpace(Head(rawLine)) THEN TrimLine(Tail(rawLine))
    ELSE IF IsLineSpace(rawLine[Len(rawLine)]) THEN TrimLine(SubSeq(rawLine, 1, Len(rawLine) - 1))
    ELSE rawLine

RECURSIVE SplitLines(_)
\* schema.split(/\r?\n/)
SplitLines(schema) ==
    IF \E i \in DOMAIN schema : schema[i] = "\n"
    THEN LET i == CHOOSE k \in DOMAIN schema : schema[k] = "\n" /\ \A j \in 1..(k - 1) : schema[j] # "\n"
         IN  <<SubSeq(schema, 1, IF CharAt(schema, i - 1, "\r") THEN i - 2 ELSE i - 1)>>
             \o SplitLines(SubSeq(schema, i + 1, Len(schema)))
    ELSE <<schema>>

\* lines 39-48: the column of a match
ColumnOfMatch(colMatch) ==
    [name |-> colMatch.colName, rawType |-> colMatch.rawType,
     nullable |-> ~Includes(colMatch.modifierText, <<"n","u","l","l">> \o <<":", " ">> \o <<"f","a","l","s","e">>),
     defaultValue |-> DefaultMatchFrom(colMatch.modifierText, 1)]

\* current.columns.push(column): current is the table pushed last
PushColumn(tables, column) ==
    [tables EXCEPT ![Len(tables)].columns = Append(@, column)]

\* lines 25-31: a line that starts with create_table
CreateTableStep(tables, current, nameMatch) ==
    IF nameMatch # Null
    THEN [tables |-> Append(tables, [name |-> nameMatch.s, columns |-> <<>>]), current |-> TRUE]
    ELSE [tables |-> tables, current |-> current]

\* lines 38-49: another line; current says whether a table is open
ColumnStep(tables, current, colMatch) ==
    IF ~current \/ colMatch = Null THEN [tables |-> tables, current |-> current]
    ELSE [tables |-> PushColumn(tables, ColumnOfMatch(colMatch)), current |-> current]

\* the body of the loop of parseSchema for one trimmed line
LineStep(tables, current, line) ==
    IF StartsWithText(line, <<"c","r","e","a","t","e","_","t","a","b","l","e">>) THEN CreateTableStep(tables, current, NameMatchFrom(line, 1))
    ELSE IF StartsWithText(line, <<"e","n","d">>) THEN [tables |-> tables, current |-> FALSE]
    ELSE ColumnStep(tables, current, ColumnMatchFrom(line, 1))

RECURSIVE ParseLines(_, _)
\* the loop of parseSchema over the lines, from the state [tables, current]
ParseLines(lines, state) ==
    IF lines = <<>> THEN state.tables
    ELSE ParseLines(Tail(lines), LineStep(state.tables, state.current, TrimLine(Head(lines))))

\* parseSchema(schema)
parseSchema(schema) == ParseLines(SplitLines(schema), [tables |-> <<>>, current |-> FALSE])

\* pascalCase(input): split(/_|\s+/).filter(Boolean) leaves the runs of characters
\* that are neither underscores nor white space
pascalCase(input) ==
    Flatten([i \in DOMAIN SplitParts(input) |-> UpperFirst(SplitParts(input)[i])])

\* Mutant: every field is written as optional.
EmitField_Optional(column) ==
    <<" ", " ">> \o column.name \o <<"?">> \o <<":", " ">> \o mapColumnType(column.rawType) \o <<";">>

\* the line of one column in emitTypeSpecModel
EmitField(column) ==
    <<" ", " ">> \o column.name \o (IF column.nullable THEN <<"?">> ELSE <<>>)
    \o <<":", " ">> \o mapColumnType(column.rawType) \o <<";">>

\* emitTypeSpecModel(table)
emitTypeSpecModel(table) ==
    JoinWith(<< <<"m","o","d","e","l">> \o <<" ">> \o pascalCase(table.name) \o <<" ", "{">> >>
             \o [i \in DOMAIN table.columns |-> EmitField(table.columns[i])]
             \o << <<"}">> >>, <<"\n">>)

\* emitDocument(tables)
emitDocument(tables) ==
    JoinWith([i \in DOMAIN tables |-> emitTypeSpecModel(tables[i])], <<"\n", "\n">>)

\* generate(options)
generate(options) ==
    [name |-> <<"s","c","h","e","m","a",".","t","s","p">>, contents |-> emitDocument(parseSchema(options.schema))]

\* --- the schemas given to the generator: lines of a schema file, with the
\* model declaration or the field each one stands for
MaxLines == 4

CreateLine(text, model) == [kind |-> "create", text |-> text, emits |-> model]

ColumnLine(text, field) == [kind |-> "column", text |-> text, emits |-> field]

EndLine(text) == [kind |-> "end", text |-> text, emits |-> <<>>]

SchemaLines == {
    CreateLine(<<"c","r","e","a","t","e","_","t","a","b","l","e"," ","\"","u","s","e","r","s","\"",","," ","f","o","r","c","e",":"," ",":","c","a","s","c","a","d","e"," ","d","o"," ","|","t","|">>, <<"m","o","d","e","l"," ","U","s","e","r","s"," ","{">>),
    CreateLine(<<" "," ","c","r","e","a","t","e","_","t","a","b","l","e"," ","\"","b","l","o","g","_","p","o","s","t","s","\""," ","d","o"," ","|","t","|">>, <<"m","o","d","e","l"," ","B","l","o","g","P","o","s","t","s"," ","{">>),
    ColumnLine(<<" "," "," "," ","t",".","s","t","r","i","n","g"," ","\"","n","a","m","e","\"",","," ","n","u","l","l",":"," ","f","a","l","s","e">>, <<" "," ","n","a","m","e",":"," ","s","t","r","i","n","g",";">>),
    ColumnLine(<<" "," "," "," ","t",".","i","n","t","e","g","e","r"," ","\"","a","g","e","\"",","," ","d","e","f","a","u","l","t",":"," ","0">>, <<" "," ","a","g","e","?",":"," ","i","n","t","3","2",";">>),
    ColumnLine(<<" "," "," "," ","t",".","j","s","o","n","b"," "," "," ","\"","d","a","t","a","\"",","," ","n","u","l","l",":"," ","t","r","u","e">>, <<" "," ","d","a","t","a","?",":"," ","u","n","k","n","o","w","n",";">>),
    EndLine(<<" "," ","e","n","d">>) }

\* the line terminators of a schema file
LineEnds == { <<"\n">>, <<"\r", "\n">> }

GenerateInputs ==
    {[lines |-> lines, eol |-> eol] : lines \in SeqsUpTo(SchemaLines, MaxLines), eol \in LineEnds}

\* the text of the schema file: every line with its terminator
SchemaText(input) ==
    Flatten([i \in DOMAIN input.lines |-> input.lines[i].text \o input.eol])

GenerateInit ==
    /\ prismParse = TRUE /\ prismLoadError = Null /\ invoked = <<>>
    /\ op = "none" /\ ret = Undefined
    /\ arg \in GenerateInputs

Generate ==
    /\ op = "none"
    /\ op' = "generate"
    /\ ret' = generate([schema |-> SchemaText(arg)])
    /\ UNCHANGED <<prismParse, prismLoadError, invoked, arg>>

GenerateNext == Generate

SpecGenerate == GenerateInit /\ [][GenerateNext]_vars

(***************************************************************************)
(* Discovery of the schema files (src/src/discovery.ts).  A path is the    *)
(* sequence of its names; the file system is a set of entries [path, kind] *)
(* with kind "file" or "dir", holding the directories above every entry.   *)
(***************************************************************************)
\* SCHEMA_FILE_PATTERN = /_?schema\.rb$/ tested on a name
SCHEMA_FILE_PATTERN(name) ==
    Len(name) >= Len(<<"s","c","h","e","m","a",".","r","b">>) /\ SubSeq(name, Len(name) - Len(<<"s","c","h","e","m","a",".","r","b">>) + 1, Len(name)) = <<"s","c","h","e","m","a",".","r","b">>

MAX_SEARCH_DEPTH == 4

IGNORED_DIRECTORIES == {<<".","g","i","t">>, <<"n","o","d","e","_","m","o","d","u","l","e","s">>, <<"t","m","p">>, <<"l","o","g">>, <<"v","e","n","d","o","r">>, <<"s","t","o","r","a","g","e">>, <<"m","i","g","r","a","t","e">>}

DEFAULT_SCHEMA_FILES == <<<<<<"d","b">>, <<"s","c","h","e","m","a",".","r","b">>>>, <<<<"d","b">>, <<"p","r","i","m","a","r","y","_","s","c","h","e","m","a",".","r","b">>>>, <<<<"d","b">>, <<"s","e","c","o","n","d","a","r","y","_","s","c","h","e","m","a",".","r","b">>>>>>

\* path.resolve(rootDir): an absolute path as it is, a relative one under the
\* working directory
PathResolve(cwd, rootDir) == IF rootDir.absolute THEN rootDir.names ELSE cwd \o rootDir.names

\* the string of an absolute path
PathString(names) == Flatten([i \in DOMAIN names |-> <<"/">> \o names[i]])

\* fs.access(targetPath) succeeds
pathExists(fs, targetPath) == \E entry \in fs : entry.path = targetPath

\* fs.readdir(directory, {withFileTypes: true}) throws
ReaddirThrows(fs, directory) == [path |-> directory, kind |-> "dir"] \notin fs

\* the entries fs.readdir(directory, {withFileTypes: true}) returns
Readdir(fs, directory) ==
    {entry \in fs : Len(entry.path) = Len(directory) + 1 /\ SubSeq(entry.path, 1, Len(directory)) = directory}

\* entry.name
EntryName(entry) == entry.path[Len(entry.path)]

RECURSIVE collectSchemaFiles(_, _, _)
\* Mutant: the ignored directories are scanned as the others.
CollectEntry_Everywhere(fs, entry, depth) ==
    IF entry.kind = "file" /\ SCHEMA_FILE_PATTERN(EntryName(entry)) THEN {PathString(entry.path)}
    ELSE IF entry.kind # "dir" THEN {}
    ELSE collectSchemaFiles(fs, entry.path, depth + 1)

\* lines 28-39: what the loop of collectSchemaFiles adds to results for one entry
CollectEntry(fs, entry, depth) ==
    IF entry.kind = "file" /\ SCHEMA_FILE_PATTERN(EntryName(entry)) THEN {PathString(entry.path)}
    ELSE IF entry.kind # "dir" THEN {}
    ELSE IF EntryName(entry) \in IGNORED_DIRECTORIES THEN {}
    ELSE collectSchemaFiles(fs, entry.path, depth + 1)

\* collectSchemaFiles(directory, results, depth): the paths added to results
collectSchemaFiles(fs, directory, depth) ==
    IF depth > MAX_SEARCH_DEPTH THEN {}
    ELSE IF ReaddirThrows(fs, directory) THEN {}
    ELSE UNION {CollectEntry(fs, entry, depth) : entry \in Readdir(fs, directory)}

RECURSIVE walk(_, _, _)
\* lines 55-64: what the loop of walk adds to discovered for one entry
WalkEntry(fs, entry, depth) ==
    IF entry.kind # "dir" THEN {}
    ELSE IF EntryName(entry) \in IGNORED_DIRECTORIES THEN {}
    ELSE (IF EntryName(entry) = <<"d","b">> THEN {entry.path} ELSE {}) \cup walk(fs, entry.path, depth + 1)

\* walk(directory, depth) of enumerateDbDirectories: the directories added
walk(fs, directory, depth) ==
    IF depth > MAX_SEARCH_DEPTH THEN {}
    ELSE IF ReaddirThrows(fs, directory) THEN {}
    ELSE UNION {WalkEntry(fs, entry, depth) : entry \in Readdir(fs, directory)}

\* enumerateDbDirectories(rootDir)
enumerateDbDirectories(fs, rootDir) == walk(fs, rootDir, 0)

\* the order of Array.prototype.sort() on the characters of a path: UTF-16
\* code units
CodeUnits == <<".", "/", "0", "1", "2", "3", "4", "5", "6", "7", "8", "9", "_">> \o LowerLetters

CodeUnit(c) == IndexIn(CodeUnits, c)

RECURSIVE StringLess(_, _)
\* a < b for two strings
StringLess(a, b) ==
    IF b = <<>> THEN FALSE
    ELSE IF a = <<>> THEN TRUE
    ELSE IF Head(a) # Head(b) THEN CodeUnit(Head(a)) < CodeUnit(Head(b))
    ELSE StringLess(Tail(a), Tail(b))

RECURSIVE SortStrings(_)
\* Array.from(discovered).sort()
SortStrings(strings) ==
    IF strings = {} THEN <<>>
    ELSE <<CHOOSE s \in strings : \A other \in strings : ~StringLess(other, s)>>
         \o SortStrings(strings \ {CHOOSE s \in strings : \A other \in strings : ~StringLess(other, s)})

\* lines 75-80: the default schema files that exist
DefaultsFound(fs, absoluteRoot) ==
    {PathString(absoluteRoot \o DEFAULT_SCHEMA_FILES[i]) :
        i \in {k \in DOMAIN DEFAULT_SCHEMA_FILES : pathExists(fs, absoluteRoot \o DEFAULT_SCHEMA_FILES[k])}}

\* lines 82-85: the scan of the db directory of the root
RootDbFound(fs, dbDir) == IF pathExists(fs, dbDir) THEN collectSchemaFiles(fs, dbDir, 0) ELSE {}

\* lines 87-91: the scan of the other db directories
NestedDbFound(fs, dbDir, nestedDbDirs) ==
    UNION {collectSchemaFiles(fs, directory, 0) : directory \in nestedDbDirs \ {dbDir}}

Discovered(fs, absoluteRoot) ==
    DefaultsFound(fs, absoluteRoot)
    \cup RootDbFound(fs, Append(absoluteRoot, <<"d","b">>))
    \cup NestedDbFound(fs, Append(absoluteRoot, <<"d","b">>), enumerateDbDirectories(fs, absoluteRoot))

\* discoverRailsSchemaFiles(rootDir)
discoverRailsSchemaFiles(fs, cwd, rootDir) == SortStrings(Discovered(fs, PathResolve(cwd, rootDir)))

\* --- the projects given to the discovery: a root and the files under it
MaxFiles == 3

\* process.cwd()
Cwd == <<<<"w">>>>

RootDirs == {[absolute |-> TRUE, names |-> <<<<"a","p","p">>>>], [absolute |-> FALSE, names |-> <<<<"a","p","p">>>>]}

ProjectFiles == {
    <<<<"d","b">>, <<"s","c","h","e","m","a",".","r","b">>>>,
    <<<<"d","b">>, <<"s","e","c","o","n","d","a","r","y","_","s","c","h","e","m","a",".","r","b">>>>,
    <<<<"d","b">>, <<"s","e","e","d","s",".","r","b">>>>,
    <<<<"d","b">>, <<"m","i","g","r","a","t","e">>, <<"o","l","d","_","s","c","h","e","m","a",".","r","b">>>>,
    <<<<"d","b">>, <<"s","h","a","r","d","s">>, <<"e","u","_","s","c","h","e","m","a",".","r","b">>>>,
    <<<<"d","b">>, <<"s","1">>, <<"s","2">>, <<"s","3">>, <<"s","4">>, <<"o","k","_","s","c","h","e","m","a",".","r","b">>>>,
    <<<<"d","b">>, <<"s","1">>, <<"s","2">>, <<"s","3">>, <<"s","4">>, <<"s","5">>, <<"d","e","e","p","_","s","c","h","e","m","a",".","r","b">>>>,
    <<<<"e","n","g","i","n","e","s">>, <<"b","l","o","g">>, <<"d","b">>, <<"s","c","h","e","m","a",".","r","b">>>>,
    <<<<"v","e","n","d","o","r">>, <<"g","e","m">>, <<"d","b">>, <<"s","c","h","e","m","a",".","r","b">>>>,
    <<<<"l","i","b">>, <<"s","c","h","e","m","a",".","r","b">>>>,
    <<<<"a">>, <<"b">>, <<"c">>, <<"d">>, <<"d","b">>, <<"s","c","h","e","m","a",".","r","b">>>>,
    <<<<"a">>, <<"b">>, <<"c">>, <<"d">>, <<"e">>, <<"d","b">>, <<"s","c","h","e","m","a",".","r","b">>>> }

Projects ==
    {[root |-> root, files |-> files] :
        root \in RootDirs, files \in {F \in SUBSET ProjectFiles : Cardinality(F) <= MaxFiles}}

\* the file system of a project: its root, its files and the directories above them
FileSystem(project) ==
    {[path |-> PathResolve(Cwd, project.root), kind |-> "dir"]}
    \cup {[path |-> PathResolve(Cwd, project.root) \o file, kind |-> "file"] : file \in project.files}
    \cup UNION {{[path |-> PathResolve(Cwd, project.root) \o SubSeq(file, 1, k), kind |-> "dir"] :
                    k \in 1..(Len(file) - 1)} : file \in project.files}

DiscoverInit ==
    /\ prismParse = TRUE /\ prismLoadError = Null /\ invoked = <<>>
    /\ op = "none" /\ ret = Undefined
    /\ arg \in Projects

DiscoverRailsSchemaFiles ==
    /\ op = "none"
    /\ op' = "discoverRailsSchemaFiles"
    /\ ret' = discoverRailsSchemaFiles(FileSystem(arg), Cwd, arg.root)
    /\ UNCHANGED <<prismParse, prismLoadError, invoked, arg>>

DiscoverNext == DiscoverRailsSchemaFiles

SpecDiscover == DiscoverInit /\ [][DiscoverNext]_vars

(***************************************************************************)
(* Specification of the literal resolver: literalFromNode applied to nodes *)
(* drawn from a bounded set, over one source text.                         *)
(***************************************************************************)
\* the source text of the literal nodes: "ab" :sy true false 12 'q'
LiteralText == <<"\"","a","b","\""," ",":","s","y"," ","t","r","u","e"," ","f","a","l","s","e"," ","1","2"," ","'","q","'">>

\* the offsets of the tokens of the source text, <<startOffset, endOffset>>
TokenOffsets == { <<0, 4>>, <<5, 8>>, <<9, 13>>, <<14, 19>>, <<20, 22>>, <<23, 26>> }

\* the primitive values a node can be or hold
PrimitiveValues == {Str(<<>>), Str(<<"x">>), Num(0), Num(3), Bool(FALSE), Bool(TRUE)}

\* the fields a literal node may have: each one absent (<<>>) or present
ValueFields == {<<>>} \cup {<< <<<<"v","a","l","u","e">>, v>> >> : v \in PrimitiveValues \cup {Null}}

PartsFields == {<<>>,
                << <<<<"p","a","r","t","s">>, Arr(<< Str(<<"a">>), Obj(<< <<<<"v","a","l","u","e">>, Str(<<"b">>)>> >>) >>)>> >>,
                << <<<<"p","a","r","t","s">>, Arr(<< Str(<<>>), Num(0) >>)>> >>,
                << <<<<"p","a","r","t","s">>, Str(<<"p">>)>> >>}

ElementsFields == {<<>>,
                   << <<<<"e","l","e","m","e","n","t","s">>, Arr(<< Str(<<"a">>), Num(1) >>)>> >>,
                   << <<<<"e","l","e","m","e","n","t","s">>, Arr(<< Bool(FALSE), Obj(<< <<<<"v","a","l","u","e">>, Num(0)>> >>) >>)>> >>}

Offsets(range) == << <<<<"s","t","a","r","t","O","f","f","s","e","t">>, Num(range[1])>>, <<<<"e","n","d","O","f","f","s","e","t">>, Num(range[2])>> >>

OffsetFields ==
    {<<>>}
    \cup {<< <<<<"l","o","c","a","t","i","o","n">>, Obj(Offsets(range))>> >> : range \in TokenOffsets}
    \cup {<< <<<<"l","o","c">>, Obj(Offsets(range))>> >> : range \in {<<0, 4>>, <<9, 13>>}}
    \cup {Offsets(range) : range \in {<<5, 8>>, <<20, 22>>}}

\* the nodes: primitives, null and undefined, objects of every combination of
\* fields, and nodes that materialize on demand
LiteralNodes ==
    PrimitiveValues \cup {Null, Undefined}
    \cup {Obj(value \o parts \o elements \o offsets) :
            value \in ValueFields, parts \in PartsFields, elements \in ElementsFields, offsets \in OffsetFields}
    \cup {Obj(<< <<<<"t","o","J","S","O","N">>, json>> >>) :
            json \in {Str(<<"x">>), Num(0), Obj(<< <<<<"v","a","l","u","e">>, Bool(FALSE)>> >>), Obj(<< <<<<"l","o","c","a","t","i","o","n">>, Obj(Offsets(<<0, 4>>))>> >>)}}

LiteralInit ==
    /\ prismParse = TRUE /\ prismLoadError = Null /\ invoked = <<>>
    /\ op = "none" /\ ret = Undefined
    /\ arg \in LiteralNodes

LiteralFromNode ==
    /\ op = "none"
    /\ op' = "literalFromNode"
    /\ ret' = literalFromNode(arg, LiteralText)
    /\ UNCHANGED <<prismParse, prismLoadError, invoked, arg>>

LiteralNext == LiteralFromNode

SpecLiteral == LiteralInit /\ [][LiteralNext]_vars


(***************************************************************************)
(* Specification of the list resolvers: arrayFromNode and optionsFromNode  *)
(* applied to nodes whose candidate fields are absent, null, a string or   *)
(* an array.                                                               *)
(***************************************************************************)
\* arrays of elements: literals for arrayFromNode, key/value pairs for optionsFromNode
ListA == Arr(<< Str(<<"a">>), Obj(<< <<<<"k","e","y">>, Str(<<"k">>)>>, <<<<"v","a","l","u","e">>, Num(1)>> >>) >>)
ListB == Arr(<< Str(<<"b">>), Str(<<>>), Arr(<< Str(<<"k">>), Bool(TRUE) >>), Obj(<< <<<<"n","a","m","e">>, Str(<<"n">>)>>, <<<<"v","a","l">>, Str(<<"v">>)>> >>) >>)
ListC == Arr(<< Obj(<< <<<<"k","e","y">>, Num(3)>>, <<<<"v","a","l","u","e">>, Num(4)>> >>), Obj(<< <<<<"k","e","y">>, Str(<<>>)>>, <<<<"v","a","l","u","e">>, Num(5)>> >>),
               Obj(<< <<<<"k","e","y">>, Str(<<"k">>)>>, <<<<"v","a","l","u","e">>, Num(6)>> >>), Obj(<< <<<<"k","e","y">>, Str(<<"k">>)>>, <<<<"v","a","l","u","e">>, Num(7)>> >>), Str(<<"c">>) >>)

\* one candidate field: absent, or present with one of the values
Field(name, values) == {<<>>} \cup {<< <<name, v>> >> : v \in values}

\* the nodes of the list resolvers
ListNodes ==
    {Obj(elements \o assocs \o args \o arguments \o pairs \o parts) :
        elements \in Field(<<"e","l","e","m","e","n","t","s">>, {Null, Str(<<"x">>), ListA}),
        assocs \in Field(<<"a","s","s","o","c","s">>, {ListB}),
        args \in Field(<<"a","r","g","s">>, {ListB}),
        arguments \in Field(<<"a","r","g","u","m","e","n","t","s">>, {Obj(<<>>), ListC}),
        pairs \in Field(<<"p","a","i","r","s">>, {ListA}),
        parts \in Field(<<"p","a","r","t","s">>, {ListC})}

ListInit ==
    /\ prismParse = TRUE /\ prismLoadError = Null /\ invoked = <<>>
    /\ op = "none" /\ ret = Undefined
    /\ arg \in ListNodes

ArrayFromNode ==
    /\ op = "none"
    /\ op' = "arrayFromNode"
    /\ ret' = Arr(arrayFromNode(arg, LiteralText))
    /\ UNCHANGED <<prismParse, prismLoadError, invoked, arg>>

OptionsFromNode ==
    /\ op = "none"
    /\ op' = "optionsFromNode"
    /\ ret' = optionsFromNode(arg, LiteralText)
    /\ UNCHANGED <<prismParse, prismLoadError, invoked, arg>>

ListNext == ArrayFromNode \/ OptionsFromNode

SpecList == ListInit /\ [][ListNext]_vars


(***************************************************************************)
(* Specification of the traversal: visitPrismAst applied to finite trees,  *)
(* recording the calls of the visitor.                                     *)
(***************************************************************************)
\* the values at the leaves: tagged nodes, nodes with an empty tag, an untagged
\* object, a string, null, and a node that materializes on demand
LeafNodes ==
    {Obj(<< <<<<"t","y","p","e">>, Str(<<"c","a","l","l">>)>> >>), Obj(<< <<<<"k","i","n","d">>, Str(<<"k">>)>> >>),
     Obj(<< <<<<"t","y","p","e">>, Str(<<>>)>> >>), Obj(<< <<<<"t","y","p","e">>, Str(<<>>)>>, <<<<"k","i","n","d">>, Str(<<"k">>)>> >>),
     Obj(<< <<<<"x">>, Num(1)>> >>), Str(<<"s">>), Null,
     Obj(<< <<<<"t","o","J","S","O","N">>, Obj(<< <<<<"t","y","p","e">>, Str(<<"j">>)>> >>)>> >>)}

\* the tag of an inner node: a type, or none
InnerTags == {<< <<<<"t","y","p","e">>, Str(<<"b","l","o","c","k">>)>> >>, <<>>}

\* an inner node holding two nodes in an array-valued field
InnerNodes ==
    {Obj(tag \o << <<<<"b","o","d","y">>, Arr(<<first, second>>)>> >>) :
        tag \in InnerTags, first \in LeafNodes,
        second \in {Obj(<< <<<<"k","i","n","d">>, Str(<<"k">>)>> >>), Obj(<< <<<<"t","y","p","e">>, Str(<<>>)>> >>), Str(<<"s">>)}}

\* the trees: a root holding an inner node in an array-valued field and a leaf
\* in an object-valued field; and roots that are no objects
VisitTrees ==
    {Obj(tag \o << <<<<"n","a","m","e">>, Str(<<"n">>)>>, <<<<"s","t","a","t","e","m","e","n","t","s">>, Arr(<<inner>>)>>, <<<<"c","h","i","l","d">>, leaf>> >>) :
        tag \in InnerTags, inner \in InnerNodes, leaf \in LeafNodes}
    \cup {Null, Str(<<"s">>)}

VisitInit ==
    /\ prismParse = TRUE /\ prismLoadError = Null /\ invoked = <<>>
    /\ op = "none" /\ ret = Undefined
    /\ arg \in VisitTrees

\* visitPrismAst(arg, visitor) with a visitor that records its arguments
VisitPrismAst ==
    /\ op = "none"
    /\ op' = "visitPrismAst"
    /\ ret' = visitPrismAst(arg, Null)
    /\ UNCHANGED <<prismParse, prismLoadError, invoked, arg>>

VisitNext == VisitPrismAst

SpecVisit == VisitInit /\ [][VisitNext]_vars


(***************************************************************************)
(* Specification of a column declaration with trailing arguments:          *)
(*   t.<type> "n", <argument>, ..., <key>: <value>, ...                    *)
(* read by createColumnsFromBlock and by process_column of the script.     *)
(***************************************************************************)
MaxTrailing == 2

\* an argument after the column name: keyword arguments, a hash in braces, or
\* a literal
Trailing(form, options, value) == [form |-> form, options |-> options, value |-> value]

TrailingNodes ==
    {Trailing("keywords", << <<S_null, Bool(FALSE)>> >>, Null),
     Trailing("keywords", << <<S_null, Bool(TRUE)>>, <<S_default, Sym(<<"d">>)>> >>, Null),
     Trailing("hash", << <<S_default, Str(<<"x">>)>> >>, Null),
     Trailing("hash", << <<S_null, Bool(TRUE)>> >>, Null),
     Trailing("literal", <<>>, Sym(<<"y">>))}

\* the argument lists Ruby accepts: keyword arguments come last
TrailingLists ==
    {list \in SeqsUpTo(TrailingNodes, MaxTrailing) : \A i \in 1..(Len(list) - 1) : list[i].form # "keywords"}

\* the literals of the declaration in order of appearance
TrailingSource(trailing) ==
    LiteralSource(Str(<<"n">>)) \o <<" ">>
    \o Flatten([i \in DOMAIN trailing |->
          IF trailing[i].form = "literal" THEN LiteralSource(trailing[i].value) \o <<" ">>
          ELSE Flatten([k \in DOMAIN trailing[i].options |->
                  LiteralSource(Sym(trailing[i].options[k][1])) \o <<" ">> \o LiteralSource(trailing[i].options[k][2]) \o <<" ">>])])

\* the argument nodes of the declaration in the tree of the primary parser
PrismTrailing(style, trailing, source) ==
    <<PrismLiteral(style, Str(<<"n">>), source)>>
    \o [i \in DOMAIN trailing |->
          IF trailing[i].form = "literal" THEN PrismLiteral(style, trailing[i].value, source)
          ELSE PrismOptions(style, trailing[i].options, source)]

\* the block of the primary parser holding the declaration
PrismDeclaration(style, method, trailing, source) ==
    Obj(<< <<<<"b","o","d","y">>, Arr(<<
        IF style = "type"
        THEN Obj(<< <<<<"t","y","p","e">>, Str(<<"C","a","l","l","N","o","d","e">>)>>, <<<<"n","a","m","e">>, Str(method)>>,
                    <<<<"a","r","g","u","m","e","n","t","s">>, Obj(<< <<<<"a","r","g","u","m","e","n","t","s">>, Arr(PrismTrailing(style, trailing, source))>> >>)>> >>)
        ELSE Obj(<< <<<<"k","i","n","d">>, Str(<<"c","a","l","l","_","n","o","d","e">>)>>, <<<<"m","e","t","h","o","d">>, Obj(<< <<<<"v","a","l","u","e">>, Str(method)>> >>)>>,
                    <<<<"a","r","g","s">>, Arr(PrismTrailing(style, trailing, source))>> >>) >>)>> >>)

\* the argument nodes of the declaration in the tree of Ripper: a hash in
\* braces is [:hash, [:assoclist_from_args, [pairs]]]
RipperTrailing(trailing) ==
    <<RipperLiteral(Str(<<"n">>))>>
    \o [i \in DOMAIN trailing |->
          IF trailing[i].form = "literal" THEN RipperLiteral(trailing[i].value)
          ELSE IF trailing[i].form = "keywords" THEN RipperOptions(trailing[i].options)
          ELSE Arr(<<Tag("hash"), Arr(<<Tag("assoclist_from_args"), Elem(RipperOptions(trailing[i].options), 1)>>)>>)]

TrailingInit ==
    /\ prismParse = TRUE /\ prismLoadError = Null /\ invoked = <<>>
    /\ op = "none" /\ ret = Undefined
    /\ arg \in [style : {"type", "kind"}, method : {<<"s","t","r","i","n","g">>, <<"i","n","t","e","g","e","r">>}, trailing : TrailingLists]

\* createColumnsFromBlock over the block holding the declaration
CreateColumnsFromBlock ==
    /\ op = "none"
    /\ op' = "createColumnsFromBlock"
    /\ ret' = createColumnsFromBlock(PrismDeclaration(arg.style, arg.method, arg.trailing, TrailingSource(arg.trailing)),
                                     TrailingSource(arg.trailing))
    /\ UNCHANGED <<prismParse, prismLoadError, invoked, arg>>

\* process_column(columns, method_name, args_nodes) on an empty list of columns
ProcessColumn ==
    /\ op = "none"
    /\ op' = "process_column"
    /\ ret' = process_column(<<>>, Str(arg.method), RipperTrailing(arg.trailing))
    /\ UNCHANGED <<prismParse, prismLoadError, invoked, arg>>

TrailingNext == CreateColumnsFromBlock \/ ProcessColumn

SpecTrailing == TrailingInit /\ [][TrailingNext]_vars


(***************************************************************************)
(* Specification of the objects behind the timestamps columns.  Objects    *)
(* live in a heap, a sequence of cells addressed by their index; a column  *)
(* cell refers to its options cell by address.  The state is in ret: the   *)
(* heap, the tables returned so far and the addresses the callers wrote.   *)
(***************************************************************************)
MaxParses == 2
MaxWrites == 2

ColumnCell(name, options) == [cell |-> "column", name |-> name, type |-> <<"d","a","t","e","t","i","m","e">>, options |-> options, null |-> FALSE]
OptionsCell(null) == [cell |-> "options", name |-> <<>>, type |-> <<>>, options |-> 0, null |-> null]

\* const TIMESTAMP_COLUMNS: two column objects at addresses 1 and 3, their
\* options objects at 2 and 4
TIMESTAMP_COLUMNS_Cells ==
    <<ColumnCell(<<"c","r","e","a","t","e","d","_","a","t">>, 2), OptionsCell(FALSE), ColumnCell(<<"u","p","d","a","t","e","d","_","a","t">>, 4), OptionsCell(FALSE)>>

\* Mutant: the copy of a column keeps the options object of the original.
CopyColumn_SharedOptions(heap, column) ==
    heap \o <<heap[heap[column].options], [heap[column] EXCEPT !.options = heap[column].options]>>

\* ({ ...column, options: { ...column.options } }): a new options object and a
\* new column object that refers to it, at the two addresses after the heap
CopyColumn(heap, column) ==
    heap \o <<heap[heap[column].options], [heap[column] EXCEPT !.options = Len(heap) + 1]>>

\* columns.push(...TIMESTAMP_COLUMNS.map(...)) of line 364: the heap afterwards
PushTimestamps(heap) == CopyColumn(CopyColumn(heap, 1), 3)

RECURSIVE PushTables(_, _)
\* the heap after the timestamps calls of n create_table blocks
PushTables(heap, n) == IF n = 0 THEN heap ELSE PushTables(PushTimestamps(heap), n - 1)

\* the tables of a result: for each one the addresses of its two columns
ReturnedTables(heap, n, parse, writes) ==
    [k \in 1..n |-> [parse |-> parse, columns |-> <<Len(heap) + 4 * (k - 1) + 2, Len(heap) + 4 * (k - 1) + 4>>, writesBefore |-> writes]]

ShareInit ==
    /\ prismParse = TRUE /\ prismLoadError = Null /\ invoked = <<>>
    /\ op = "none" /\ arg = Undefined
    /\ ret = [heap |-> TIMESTAMP_COLUMNS_Cells, tables |-> <<>>, parses |-> 0, written |-> {}, writes |-> 0]

\* parseRailsSchema on a schema of n create_table blocks with a timestamps call each
ParseTimestamps ==
    /\ ret.parses < MaxParses
    /\ \E n \in 1..2 :
          ret' = [ret EXCEPT !.heap = PushTables(ret.heap, n),
                             !.tables = ret.tables \o ReturnedTables(ret.heap, n, ret.parses + 1, ret.writes),
                             !.parses = ret.parses + 1]
    /\ op' = "parseRailsSchema"
    /\ UNCHANGED <<prismParse, prismLoadError, invoked, arg>>

\* the caller assigns to the name of a column of a returned table
WriteColumn ==
    /\ ret.writes < MaxWrites
    /\ \E t \in DOMAIN ret.tables : \E c \in 1..2 :
          ret' = [ret EXCEPT !.heap[ret.tables[t].columns[c]].name = <<"c","h","a","n","g","e","d">>,
                             !.written = ret.written \cup {ret.tables[t].columns[c]},
                             !.writes = ret.writes + 1]
    /\ op' = "write column"
    /\ UNCHANGED <<prismParse, prismLoadError, invoked, arg>>

\* the caller assigns to an entry of the options of a column of a returned table
WriteOptions ==
    /\ ret.writes < MaxWrites
    /\ \E t \in DOMAIN ret.tables : \E c \in 1..2 :
          ret' = [ret EXCEPT !.heap[ret.heap[ret.tables[t].columns[c]].options].null = TRUE,
                             !.written = ret.written \cup {ret.tables[t].columns[c]},
                             !.writes = ret.writes + 1]
    /\ op' = "write options"
    /\ UNCHANGED <<prismParse, prismLoadError, invoked, arg>>

ShareNext == ParseTimestamps \/ WriteColumn \/ WriteOptions

SpecShare == ShareInit /\ [][ShareNext]_vars


(***************************************************************************)
(* Specification of the command-line tool: main of generator.test.js over  *)
(* the command line, the files of the project and what the generation      *)
(* returns for each file.                                                  *)
(***************************************************************************)
MaxEntries == 2

\* what a schema file gives: the documents of its result and its diagnostics,
\* or a read that throws
SchemaFile(kind, documents, warnings, errors) == [kind |-> kind, documents |-> documents, warnings |-> warnings, errors |-> errors]

SchemaFileKinds ==
    {SchemaFile("clean", <<"Status.tsp", "User.tsp">>, <<>>, <<>>),
     SchemaFile("warned", <<"Log.tsp">>, <<"fallback in use">>, <<>>),
     SchemaFile("failed", <<"Post.tsp">>, <<>>, <<"unexpected end of file">>),
     SchemaFile("unreadable", <<>>, <<>>, <<>>),
     SchemaFile("blank", <<>>, <<>>, <<>>)}

\* a --schema entry that names no file
MissingFile == SchemaFile("missing", <<>>, <<>>, <<>>)

\* the runs: the project root, the --schema entries, the files discovery finds,
\* --dry-run, --force, and whether the output files exist already
CliRuns ==
    [rootExists : BOOLEAN,
     schema : SeqsUpTo(SchemaFileKinds \cup {MissingFile}, MaxEntries),
     discovered : SeqsUpTo(SchemaFileKinds, 1),
     dryRun : BOOLEAN, force : BOOLEAN, outputExists : BOOLEAN]

\* lines 276-286: the --schema entries that exist
ResolvedExplicitSchemas(explicitSchemas) == SelectSeq(explicitSchemas, LAMBDA entry : entry.kind # "missing")

\* lines 288-290
SchemaFilesOf(resolved, discovered) == IF Len(resolved) # 0 THEN resolved ELSE discovered

\* Mutant: a read that throws adds no error.
FileErrors_ThrowIgnored(file) == file.errors

\* lines 301-325: the errors one schema file adds to aggregatedDiagnostics
FileErrors(file) == IF file.kind = "unreadable" THEN <<"read failed">> ELSE file.errors

\* lines 301-325: the aggregated errors of the schema files
AggregatedErrors(schemaFiles) == Flatten([i \in DOMAIN schemaFiles |-> FileErrors(schemaFiles[i])])

\* flattenDocuments(aggregatedResults): <<file index, document name>>; a file
\* whose read threw has no aggregated result
flattenDocuments(schemaFiles) ==
    Flatten([i \in DOMAIN schemaFiles |->
                IF schemaFiles[i].kind = "unreadable" THEN <<>>
                ELSE [k \in DOMAIN schemaFiles[i].documents |-> <<i, schemaFiles[i].documents[k]>>]])

CliResult(exitCode, discovery, processed, written, printed) ==
    [exitCode |-> exitCode, discovery |-> discovery, processed |-> processed, written |-> written, printed |-> printed]

\* lines 354-377: the writes; with flag wx an existing file fails with EEXIST
WriteOutputs(run, discovery, schemaFiles, outputs) ==
    IF run.force \/ ~run.outputExists
    THEN CliResult(0, discovery, schemaFiles, outputs, <<>>)
    ELSE CliResult(1, discovery, schemaFiles, <<>>, <<>>)

\* lines 298-352, for the schema files to process
ProcessSchemaFiles(run, discovery, schemaFiles) ==
    IF Len(schemaFiles) = 0 THEN CliResult(1, discovery, schemaFiles, <<>>, <<>>)
    ELSE IF Len(AggregatedErrors(schemaFiles)) # 0 THEN CliResult(1, discovery, schemaFiles, <<>>, <<>>)
    ELSE IF Len(flattenDocuments(schemaFiles)) = 0 THEN CliResult(0, discovery, schemaFiles, <<>>, <<>>)
    ELSE IF run.dryRun THEN CliResult(0, discovery, schemaFiles, <<>>, flattenDocuments(schemaFiles))
    ELSE WriteOutputs(run, discovery, schemaFiles, flattenDocuments(schemaFiles))

\* main(): the exit code, whether discoverRailsSchemaFiles was called, the
\* schema files processed, the documents written and the documents printed
main(run) ==
    IF ~run.rootExists THEN CliResult(1, FALSE, <<>>, <<>>, <<>>)
    ELSE ProcessSchemaFiles(run, Len(ResolvedExplicitSchemas(run.schema)) = 0,
                            SchemaFilesOf(ResolvedExplicitSchemas(run.schema), run.discovered))

CliInit ==
    /\ prismParse = TRUE /\ prismLoadError = Null /\ invoked = <<>>
    /\ op = "none" /\ ret = Undefined
    /\ arg \in CliRuns

Main ==
    /\ op = "none"
    /\ op' = "main"
    /\ ret' = main(arg)
    /\ UNCHANGED <<prismParse, prismLoadError, invoked, arg>>

CliNext == Main

SpecCli == CliInit /\ [][CliNext]_vars


(***************************************************************************)
(* Specification of the documents of one schema: one call of               *)
(* generateTypespecFromRailsSchema on a schema of distinct tables and      *)
(* enums, by the backend in use.                                           *)
(***************************************************************************)
\* tables and enums with different names
DocumentItems == {
    TableItem(<<"u","s","e","r","s">>, <<>>),
    TableItem(<<"l","o","g","_","x">>, <<>>),
    TableItem(<<"l","o","g","X">>, <<>>),
    EnumItem(<<"l","o","g","_","x">>, << Str(<<"o","n">>) >>),
    EnumItem(<<"k","i","n","d">>, << Str(<<"a">>) >>) }

\* the schemas: no item twice
DocumentSchemas ==
    {schema \in SeqsUpTo(DocumentItems, MaxItems) : \A i, k \in DOMAIN schema : i # k => schema[i] # schema[k]}

DocumentsInit ==
    /\ loadPrismParser
    /\ invoked = <<>>
    /\ op = "none" /\ ret = Undefined
    /\ arg \in {[fn |-> "generateTypespecFromRailsSchema", schema |-> schema, options |-> options, provider |-> provider] :
                   schema \in DocumentSchemas, options \in NamespaceOptions,
                   provider \in {p \in (IF prismParse THEN PrismProviders ELSE SpawnProviders) : p.outcome = "ok"}}

DocumentsNext == GenerateTypespecFromRailsSchema

SpecDocuments == DocumentsInit /\ [][DocumentsNext]_vars


(***************************************************************************)
(* Properties of the pipeline                                              *)
(***************************************************************************)
\* the statement is a call of timestamps, with or without a receiver
IsTimestampsCall(stmt) == stmt.method = <<"t","i","m","e","s","t","a","m","p","s">> /\ stmt.form \in {"recv", "paren", "bare"}

\* the two columns a timestamps call stands for
TimestampsColumns == <<
    [name |-> <<"c","r","e","a","t","e","d","_","a","t">>, type |-> <<"d","a","t","e","t","i","m","e">>, options |-> Obj(<< <<S_null, Bool(FALSE)>> >>), enumName |-> Undefined],
    [name |-> <<"u","p","d","a","t","e","d","_","a","t">>, type |-> <<"d","a","t","e","t","i","m","e">>, options |-> Obj(<< <<S_null, Bool(FALSE)>> >>), enumName |-> Undefined] >>

\* the schema is one create_table block
IsOneTable(schema) == Len(schema) = 1 /\ schema[1].kind = "table"

\* the columns the backend in use extracts from a block of these statements
ExtractedColumns(statements) ==
    Head(parseRailsSchema(SchemaSource(OneTable(statements)),
                          PrismRun(arg.provider, OneTable(statements)),
                          SpawnRun(arg.provider, OneTable(statements))).tables).columns

\* C4 (as claimed): in either backend every timestamps call of a create_table
\* block contributes exactly the two columns created_at and updated_at, of type
\* datetime with null = false, between the columns of the statements before it
\* and the columns of the statements after it.
C4_TimestampsTwoColumns ==
    (op = "parseRailsSchema" /\ arg.provider.outcome = "ok" /\ IsOneTable(arg.schema)) =>
        /\ Len(ret.tables) = 1
        /\ \A k \in DOMAIN arg.schema[1].statements :
              IsTimestampsCall(arg.schema[1].statements[k]) =>
                 ret.tables[1].columns =
                    ExtractedColumns(SubSeq(arg.schema[1].statements, 1, k - 1))
                    \o TimestampsColumns
                    \o ExtractedColumns(SubSeq(arg.schema[1].statements, k + 1, Len(arg.schema[1].statements)))

\* a namespace is configured: the option holds a non-empty name
NamespaceConfigured(options) == IsString(Get(options, <<"n","a","m","e","s","p","a","c","e">>)) /\ Get(options, <<"n","a","m","e","s","p","a","c","e">>).s # <<>>

\* the content claimed for a document of this body
WrappedBody(body, options) ==
    IF NamespaceConfigured(options)
    THEN <<"n","a","m","e","s","p","a","c","e">> \o <<" ">> \o Get(options, <<"n","a","m","e","s","p","a","c","e">>).s \o <<";", "\n", "\n">> \o body \o <<"\n">>
    ELSE body \o <<"\n">>

\* some line of the content is a namespace declaration
HasNamespaceLine(content) ==
    \E k \in DOMAIN content :
        /\ k = 1 \/ content[k - 1] = "\n"
        /\ k + 9 <= Len(content)
        /\ SubSeq(content, k, k + 9) = <<"n","a","m","e","s","p","a","c","e"," ">>

\* the content ends with exactly one newline
EndsWithOneNewline(content) ==
    /\ Len(content) >= 2
    /\ content[Len(content)] = "\n"
    /\ content[Len(content) - 1] # "\n"

\* the content of a document is the claimed wrapping of its body
IsWrapped(content, body, options) ==
    /\ content = WrappedBody(body, options)
    /\ EndsWithOneNewline(content)
    /\ HasNamespaceLine(content) <=> NamespaceConfigured(options)

\* what parseRailsSchema returns for the invocation
ParsedOfInvocation ==
    parseRailsSchema(SchemaSource(arg.schema), PrismRun(arg.provider, arg.schema), SpawnRun(arg.provider, arg.schema))

\* C7: every model document and every enum document returned by
\* generateTypespecFromRailsSchema is, when a namespace is configured, the line
\* 'namespace <ns>;', an empty line, the body and a final newline, and otherwise
\* the body followed by exactly one newline, without any namespace line.
C7_NamespaceWrapping ==
    (op = "generateTypespecFromRailsSchema" /\ ~Threw(ret)) =>
        /\ Len(ret.models) = Len(ret.tables)
        /\ \A i \in DOMAIN ret.models :
              IsWrapped(ret.models[i].content, renderModel(ret.tables[i]), arg.options)
        /\ LET enums == ParsedOfInvocation.enums
           IN  /\ Len(ret.enums) = Len(enums)
               /\ \A i \in DOMAIN ret.enums :
                      IsWrapped(ret.enums[i].content, renderEnum(enums[i]), arg.options)

\* C7 witness: with the namespace App configured, a result with a model document
\* and an enum document was returned, the model document starting with the
\* namespace line and an empty line.
C7_Witness ==
    /\ op = "generateTypespecFromRailsSchema"
    /\ Get(arg.options, <<"n","a","m","e","s","p","a","c","e">>) = Str(<<"A","p","p">>)
    /\ ~Threw(ret)
    /\ Len(ret.models) = 1 /\ Len(ret.enums) = 1
    /\ SubSeq(ret.models[1].content, 1, 16) = <<"n","a","m","e","s","p","a","c","e">> \o <<" ","A","p","p",";","\n","\n">>
    /\ SubSeq(ret.enums[1].content, 1, 16) = <<"n","a","m","e","s","p","a","c","e">> \o <<" ","A","p","p",";","\n","\n">>

\* C10 (as claimed): on the fallback path, when the subprocess cannot be started
\* or its output is not a valid JSON document, the empty output included, the
\* result has no tables, no enums and at least one error.
C10_FailureGivesEmptyWithError ==
    (op = "parseRailsSchema" /\ ~prismParse
       /\ (SpawnRun(arg.provider, arg.schema).error # Null
           \/ ~JSONParse(SpawnRun(arg.provider, arg.schema).stdout).ok)) =>
        /\ ~Threw(ret)
        /\ ret.tables = <<>>
        /\ ret.enums = <<>>
        /\ ret.diagnostics.errors # <<>>


(***************************************************************************)
(* Claims about the diagnostics of the fallback path                       *)
(***************************************************************************)
\* what spawnSync returned for the invocation
SpawnOfInvocation == SpawnRun(arg.provider, arg.schema)

\* the subprocess ran and exited with a status that is a number other than 0
ExitedNonZero(result) == result.error = Null /\ result.status.t = "number" /\ result.status.n # 0

\* the strings of an array of a payload, an absent array counting as empty
PayloadStrings(list) == IF IsArray(list) THEN [i \in DOMAIN list.a |-> StringOf(list.a[i])] ELSE <<>>

\* the names of the entries of an array of a payload whose name is a string
PayloadNames(list) ==
    IF IsArray(list)
    THEN LET named == SelectSeq(list.a, LAMBDA entry : entry.t = "object" /\ IsString(Get(entry, <<"n","a","m","e">>)))
         IN  [i \in DOMAIN named |-> Get(named[i], <<"n","a","m","e">>).s]
    ELSE <<>>

\* the names of a list of tables or enums of a result
ResultNames(list) == [i \in DOMAIN list |-> list[i].name]

\* C11 (as claimed): on the fallback path, whenever the subprocess exits with a
\* non-zero status the result has a non-empty errors list whatever was printed;
\* when the output decoded as JSON, the last error cites the exit status and
\* follows the errors of the payload, and the tables and enums of the payload
\* are returned.
C11_NonZeroExitReported ==
    (op = "parseRailsSchema" /\ ~prismParse /\ ExitedNonZero(SpawnOfInvocation)) =>
        /\ ~Threw(ret)
        /\ ret.diagnostics.errors # <<>>
        /\ LET decoded == DecodedOutput(SpawnOfInvocation)
           IN  decoded.ok =>
                 /\ ret.diagnostics.errors =
                       Append(PayloadStrings(Get(decoded.value, <<"e","r","r","o","r","s">>)), ExitStatusError(SpawnOfInvocation.status))
                 /\ ResultNames(ret.tables) = PayloadNames(Get(decoded.value, <<"t","a","b","l","e","s">>))
                 /\ ResultNames(ret.enums) = PayloadNames(Get(decoded.value, <<"e","n","u","m","s">>))


\* one string ends with the other
EndsWithText(text, suffix) ==
    Len(text) >= Len(suffix) /\ SubSeq(text, Len(text) - Len(suffix) + 1, Len(text)) = suffix

\* the three warnings of parseWithRubyFallback that name the Ruby fallback
FallbackNotes == {LaunchWarning, DecodeWarning, FallbackUsedWarning}

\* C12: every ParsedSchema returned by the fallback path carries a warning
\* naming the Ruby fallback, which ends with the message of the load error of
\* @ruby/prism when that error is known; when the output of the subprocess
\* decoded, the warnings are those of the payload followed by that warning.
C12_FallbackWarningPresent ==
    (op = "parseRailsSchema" /\ ~prismParse /\ ~Threw(ret)) =>
        LET warnings == ret.diagnostics.warnings
            result == SpawnOfInvocation
        IN  /\ warnings # <<>>
            /\ warnings[Len(warnings)] \in FallbackNotes
            /\ prismLoadError # Null => EndsWithText(warnings[Len(warnings)], prismLoadError.s)
            /\ (result.error = Null /\ DecodedOutput(result).ok) =>
                  warnings = Append(PayloadStrings(Get(DecodedOutput(result).value, <<"w","a","r","n","i","n","g","s">>)), FallbackUsedWarning)

\* a decoded payload with a warning of its own was returned by the fallback
C12_Witness ==
    /\ op = "parseRailsSchema" /\ ~prismParse /\ ~Threw(ret)
    /\ prismLoadError # Null
    /\ SpawnOfInvocation.error = Null /\ DecodedOutput(SpawnOfInvocation).ok
    /\ Len(ret.diagnostics.warnings) = 2
    /\ ret.diagnostics.warnings[2] = FallbackUsedWarning


(***************************************************************************)
(* Claims about the choice of the backend                                  *)
(***************************************************************************)
\* C13: the backend is chosen when the module is loaded and never changes:
\* no step changes prismParse or prismLoadError, and every call of a sequence
\* of parseRailsSchema calls invokes the backend the first call invoked.
C13_BackendChosenOnce ==
    [][/\ prismParse' = prismParse
       /\ prismLoadError' = prismLoadError
       /\ \A i \in DOMAIN invoked' : invoked'[i] = invoked'[1]]_vars

\* a second call has returned
C13_Witness == op = "parseRailsSchema" /\ Len(invoked) >= 2


(***************************************************************************)
(* Claims about the order of the results                                   *)
(***************************************************************************)
\* what the backend in use returns for a schema of these items
ParsedItems(items) ==
    parseRailsSchema(SchemaSource(items), PrismRun(arg.provider, items), SpawnRun(arg.provider, items))

\* the names written in the items of one kind, in source order
ItemNames(schema, kind) ==
    LET items == SelectSeq(schema, LAMBDA item : item.kind = kind)
    IN  [i \in DOMAIN items |-> items[i].name]

\* C14: the primary extraction returns the tables and the enums in the order in
\* which the traversal meets their create_table blocks and create_enum calls,
\* and the columns of a table in the order of the statements of its block, the
\* two columns of a timestamps call standing where the call stands.
C14_PrimaryOrder ==
    (op = "parseRailsSchema" /\ prismParse /\ arg.provider.outcome = "ok") =>
        /\ ResultNames(ret.tables) = ItemNames(arg.schema, "table")
        /\ ResultNames(ret.enums) = ItemNames(arg.schema, "enum")
        /\ \A k \in DOMAIN arg.schema :
              /\ ret.tables = ParsedItems(SubSeq(arg.schema, 1, k - 1)).tables
                              \o ParsedItems(<<arg.schema[k]>>).tables
                              \o ParsedItems(SubSeq(arg.schema, k + 1, Len(arg.schema))).tables
              /\ ret.enums = ParsedItems(SubSeq(arg.schema, 1, k - 1)).enums
                             \o ParsedItems(<<arg.schema[k]>>).enums
                             \o ParsedItems(SubSeq(arg.schema, k + 1, Len(arg.schema))).enums
        /\ IsOneTable(arg.schema) =>
              \A k \in DOMAIN arg.schema[1].statements :
                 ret.tables[1].columns =
                    ExtractedColumns(SubSeq(arg.schema[1].statements, 1, k - 1))
                    \o (IF IsTimestampsCall(arg.schema[1].statements[k]) THEN TimestampsColumns
                        ELSE ExtractedColumns(<<arg.schema[1].statements[k]>>))
                    \o ExtractedColumns(SubSeq(arg.schema[1].statements, k + 1, Len(arg.schema[1].statements)))

\* the primary extraction returned a column, the two timestamps columns and
\* nothing else, in this order
C14_Witness ==
    /\ op = "parseRailsSchema" /\ prismParse /\ arg.provider.outcome = "ok"
    /\ IsOneTable(arg.schema)
    /\ Len(arg.schema[1].statements) = 2
    /\ ~IsTimestampsCall(arg.schema[1].statements[1])
    /\ IsTimestampsCall(arg.schema[1].statements[2])
    /\ Len(ret.tables[1].columns) = 3
    /\ SubSeq(ret.tables[1].columns, 2, 3) = TimestampsColumns


(***************************************************************************)
(* Claims about the columns and the values                                 *)
(***************************************************************************)
\* the enum link of a returned column: the first present of its options
\* enum_type, enum and name
EnumOption(column) ==
    Coalesce3(Get(column.options, <<"e","n","u","m","_","t","y","p","e">>), Get(column.options, <<"e","n","u","m">>), Get(column.options, <<"n","a","m","e">>))

\* the enum link of the column is a non-empty string
HasEnumLink(column) == IsString(EnumOption(column)) /\ EnumOption(column).s # <<>>

\* enumName of the column is what the claim says it is
EnumNameAsClaimed(column) ==
    IF column.type = S_enum /\ HasEnumLink(column)
    THEN column.enumName = Str(classifyTableName(EnumOption(column)))
    ELSE column.enumName = Undefined

\* C15 (as claimed): in either backend a returned column has an enumName exactly
\* when its type is enum and the first present of its options enum_type, enum,
\* name is a non-empty string, and enumName is then the class-cased option; a
\* column of another type never has an enumName, whatever the subprocess printed.
C15_EnumNameIffEnumLink ==
    (op = "parseRailsSchema" /\ ~Threw(ret)) =>
        \A i \in DOMAIN ret.tables :
            \A j \in DOMAIN ret.tables[i].columns : EnumNameAsClaimed(ret.tables[i].columns[j])


\* the string elements of the array written in a create_enum call, in order
StringElements(values) ==
    LET strings == SelectSeq(values, IsString)
    IN  [i \in DOMAIN strings |-> strings[i].s]

\* the values written in the enum items of a schema, string elements only
EnumItemValues(schema) ==
    LET items == SelectSeq(schema, LAMBDA item : item.kind = "enum")
    IN  [i \in DOMAIN items |-> StringElements(items[i].values)]

\* C16 (as claimed): in either backend the values of a returned enum are the
\* elements of the array of its create_enum call with exactly the elements
\* that are not strings removed: strings are kept in order, other elements are
\* dropped, none is converted.
C16_ValuesFilteredToStrings ==
    (op = "parseRailsSchema" /\ arg.provider.outcome = "ok") =>
        [i \in DOMAIN ret.enums |-> ret.enums[i].values] = EnumItemValues(arg.schema)


(***************************************************************************)
(* Claims about the class names                                            *)
(***************************************************************************)
\* the characters of a name that are neither underscores nor white space, each
\* one that starts a part in upper case
ClassCased(name) ==
    LET kept == SelectSeq([i \in DOMAIN name |-> i], LAMBDA i : ~IsSeparator(name[i]))
    IN  [k \in DOMAIN kept |->
            IF kept[k] = 1 \/ IsSeparator(name[kept[k] - 1])
            THEN toUpperCaseChar(name[kept[k]]) ELSE name[kept[k]]]

\* the class names and the enum links of a result are the class-cased names
ClassNamesOfResult(parsed) ==
    /\ \A i \in DOMAIN parsed.tables :
          /\ parsed.tables[i].className = ClassCased(parsed.tables[i].name)
          /\ \A j \in DOMAIN parsed.tables[i].columns :
                parsed.tables[i].columns[j].enumName = Str(ClassCased(EnumOption(parsed.tables[i].columns[j]).s))
    /\ \A i \in DOMAIN parsed.enums : parsed.enums[i].className = ClassCased(parsed.enums[i].name)

\* the rule of classifyTableName and its use by the backends
ClassNameRule ==
    /\ (op = "classifyTableName" /\ arg.s # <<>>) => ret.s = ClassCased(arg.s)
    /\ (op = "parseRailsSchema") =>
          /\ Len(ret.tables) = 1 /\ Len(ret.tables[1].columns) = 1 /\ Len(ret.enums) = 1
          /\ ret.tables[1].name = arg.s /\ ret.enums[1].name = arg.s
          /\ ClassNamesOfResult(ret)

\* C17 (as claimed): classifyTableName drops the underscores and the white
\* space of a non-empty name and writes the first character of every part in
\* upper case, leaving the others as they are; both backends apply it to table
\* names, enum names and enum links; applied to one of its results it returns
\* that result.
C17_ClassifyIdempotent ==
    /\ ClassNameRule
    /\ (op = "classifyTableName again") => ret = arg

\* C17 (amended): as above, the last part for the results that are not empty:
\* a name made of underscores and white space only has the class name '', and
\* the class name of '' is 'Model'.
C17_ClassifyIdempotentNonEmpty ==
    /\ ClassNameRule
    /\ (op = "classifyTableName again") =>
          IF arg.s # <<>> THEN ret = arg ELSE ret.s = <<"M","o","d","e","l">>

\* the class name AB of a name of two parts was classified once more
C17_Witness == op = "classifyTableName again" /\ arg.s = <<"A", "B">> /\ ret = arg


(***************************************************************************)
(* Claims about the line-based generator                                   *)
(***************************************************************************)
RECURSIVE DeclaredLines(_, _)
\* the declarations and the fields the lines of a schema stand for: the
\* declaration of every create_table line, and the field of every column line
\* that stands in an open block
DeclaredLines(lines, open) ==
    IF lines = <<>> THEN <<>>
    ELSE IF Head(lines).kind = "create" THEN <<Head(lines).emits>> \o DeclaredLines(Tail(lines), TRUE)
    ELSE IF Head(lines).kind = "end" THEN DeclaredLines(Tail(lines), FALSE)
    ELSE (IF open THEN <<Head(lines).emits>> ELSE <<>>) \o DeclaredLines(Tail(lines), open)

\* the lines of a document that are neither empty nor a closing brace
DocumentLines(contents) ==
    SelectSeq(SplitOn(contents, "\n"), LAMBDA line : line # <<>> /\ line # <<"}">>)

\* C18: generate({schema}) returns one document named schema.tsp; its contents
\* hold, in source order, the declaration model <PascalCase name> { of every
\* create_table block and after it one field line per column line of the
\* block, '<col>: <type>;' when the line holds null: false and
\* '<col>?: <type>;' otherwise; a column line outside an open block gives no
\* field.
C18_GenerateDocument ==
    (op = "generate") =>
        /\ ret.name = <<"s","c","h","e","m","a",".","t","s","p">>
        /\ DocumentLines(ret.contents) = DeclaredLines(arg.lines, FALSE)

\* a column line before the first block, a block with a required and an
\* optional field
C18_Witness ==
    /\ op = "generate"
    /\ Len(arg.lines) = 4
    /\ arg.lines[1].kind = "column" /\ arg.lines[2].kind = "create"
    /\ arg.lines[3].kind = "column" /\ arg.lines[4].kind = "column"
    /\ arg.lines[3] # arg.lines[4]
    /\ Len(DocumentLines(ret.contents)) = 3


\* C20: every call of parseRailsSchema invokes one backend, once: spawnSync
\* exactly when @ruby/prism could not be loaded, prismParse otherwise; when
\* prismParse throws or reports errors the result holds that failure once in
\* diagnostics.errors, and neither a second parse nor the subprocess is tried.
C20_OneBackendOnce ==
    [][(op = "none" /\ op' # "none") =>
          /\ invoked' = Append(invoked, IF prismParse THEN "prismParse" ELSE "spawnSync")
          /\ (op' = "parseRailsSchema" /\ prismParse /\ arg.provider.outcome \in {"throws", "syntax"}) =>
                /\ ~Threw(ret')
                /\ Len(ret'.diagnostics.errors) = 1
                /\ ret'.diagnostics.warnings \in {<<>>, << <<"unused variable">> >>}]_vars

\* the parse call of the primary provider threw and the call has returned
C20_Witness ==
    /\ op = "parseRailsSchema" /\ prismParse /\ arg.provider.outcome = "throws"
    /\ invoked = <<"prismParse">>
    /\ ret.diagnostics.errors = << <<"prism: parse failed">> >>


(***************************************************************************)
(* Claims about the discovery of the schema files                          *)
(***************************************************************************)
\* the string of the absolute path of a file of the project
FileString(file) == PathString(PathResolve(Cwd, arg.root) \o file)

\* the file is a schema file: its name ends in schema.rb
IsSchemaFile(file) == SCHEMA_FILE_PATTERN(file[Len(file)])

\* the file lies in a directory named db, or below one
InDbDirectory(file) == \E k \in 1..(Len(file) - 1) : file[k] = <<"d","b">>

\* the file lies below an ignored directory
UnderIgnored(file) == \E k \in 1..(Len(file) - 1) : file[k] \in IGNORED_DIRECTORIES

\* the file lies in a db directory within the depth of the search: the db
\* directory at most MAX_SEARCH_DEPTH directories below the root, the file at
\* most MAX_SEARCH_DEPTH directories below the db directory
InSearchedDbDirectory(file) ==
    \E k \in 1..(Len(file) - 1) :
        file[k] = <<"d","b">> /\ k - 1 <= MAX_SEARCH_DEPTH /\ Len(file) - k - 1 <= MAX_SEARCH_DEPTH

\* the paths of a list
Listed(list) == {list[i] : i \in DOMAIN list}

\* the list holds absolute paths in ascending order, none of them twice
SortedAbsolute(list) ==
    /\ \A i \in DOMAIN list : Head(list[i]) = "/"
    /\ \A i, j \in DOMAIN list : i < j => StringLess(list[i], list[j])

C30_FallbackSourceOrder ==
    (op = "parseRailsSchema" /\ ~prismParse /\ arg.provider.outcome = "ok") =>
        /\ ResultNames(ret.tables) = ItemNames(arg.schema, "table")
        /\ ResultNames(ret.enums) = ItemNames(arg.schema, "enum")


(***************************************************************************)
(* Claims about the literal resolver                                       *)
(***************************************************************************)
\* what the tokens of LiteralText stand for: the text between quotes, the name
\* of a symbol, the booleans, and any other token as it is written
TokenLiteral(startOffset, endOffset) ==
    CASE <<startOffset, endOffset>> = <<0, 4>>   -> Str(<<"a", "b">>)
      [] <<startOffset, endOffset>> = <<5, 8>>   -> Str(<<"s", "y">>)
      [] <<startOffset, endOffset>> = <<9, 13>>  -> Bool(TRUE)
      [] <<startOffset, endOffset>> = <<14, 19>> -> Bool(FALSE)
      [] <<startOffset, endOffset>> = <<20, 22>> -> Str(<<"1", "2">>)
      [] <<startOffset, endOffset>> = <<23, 26>> -> Str(<<"q">>)

\* the offsets of a node: those of its location, of its loc, or its own
OffsetsHolder(json) == Coalesce3(Get(json, <<"l","o","c","a","t","i","o","n">>), Get(json, <<"l","o","c">>), json)

HasOffsets(json) ==
    Get(OffsetsHolder(json), <<"s","t","a","r","t","O","f","f","s","e","t">>).t = "number" /\ Get(OffsetsHolder(json), <<"e","n","d","O","f","f","s","e","t">>).t = "number"

\* the text of a resolved part in a concatenation
PartText(v) == IF v.t \in {"undefined", "null"} THEN <<>> ELSE StringOf(v)

RECURSIVE ResolvedInOrder(_)
\* the literal of a node by the rules (a) to (e), the first that applies
ResolvedInOrder(node) ==
    LET json == toJsonNode(node) IN
    IF json.t \in {"string", "number", "boolean"} THEN json
    ELSE IF json.t # "object" THEN Undefined
    ELSE IF Get(json, <<"v","a","l","u","e">>).t \in {"string", "number", "boolean"} THEN Get(json, <<"v","a","l","u","e">>)
    ELSE IF Get(json, <<"p","a","r","t","s">>).t = "array"
    THEN Str(Flatten([i \in DOMAIN Get(json, <<"p","a","r","t","s">>).a |-> PartText(ResolvedInOrder(Get(json, <<"p","a","r","t","s">>).a[i]))]))
    ELSE IF Get(json, <<"e","l","e","m","e","n","t","s">>).t = "array"
    THEN Arr([i \in DOMAIN Get(json, <<"e","l","e","m","e","n","t","s">>).a |-> ResolvedInOrder(Get(json, <<"e","l","e","m","e","n","t","s">>).a[i])])
    ELSE IF HasOffsets(json)
    THEN TokenLiteral(Get(OffsetsHolder(json), <<"s","t","a","r","t","O","f","f","s","e","t">>).n, Get(OffsetsHolder(json), <<"e","n","d","O","f","f","s","e","t">>).n)
    ELSE Undefined

\* C21 (as claimed): literalFromNode returns the literal of the first rule that
\* applies: (a) the node itself when it is a string, a number or a boolean (the
\* empty string, 0 and false included), (b) its primitive value field, (c) its
\* parts resolved and concatenated, (d) its elements resolved, (e) the slice of
\* the source between its offsets, without quotes or leading colon, true and
\* false as booleans; the slice is never used when (a) to (d) apply.
C21_LiteralByFirstRule ==
    (op = "literalFromNode") => ret = ResolvedInOrder(arg)


RECURSIVE FirstArrayField(_, _)
\* the elements of the first field of names whose value is an array
FirstArrayField(json, names) ==
    IF names = <<>> THEN <<>>
    ELSE IF IsArray(Get(json, Head(names))) THEN Get(json, Head(names)).a
    ELSE FirstArrayField(json, Tail(names))

\* the key node and the value node of a pair, given as a record or as a tuple
PairKeyNode(pair) == IF IsArray(pair) THEN At(pair, 0) ELSE Coalesce(Get(pair, <<"k","e","y">>), Get(pair, <<"n","a","m","e">>))
PairValueNode(pair) == IF IsArray(pair) THEN At(pair, 1) ELSE Coalesce(Get(pair, <<"v","a","l","u","e">>), Get(pair, <<"v","a","l">>))

RECURSIVE OptionsOfPairs(_, _)
\* the options of a list of pairs: a pair whose key is not a non-empty string
\* is skipped, every other pair sets options[key]
OptionsOfPairs(acc, pairs) ==
    IF pairs = <<>> THEN acc
    ELSE OptionsOfPairs(
            IF IsNonEmptyString(literalFromNode(PairKeyNode(Head(pairs)), LiteralText))
            THEN Put(acc, literalFromNode(PairKeyNode(Head(pairs)), LiteralText).s, literalFromNode(PairValueNode(Head(pairs)), LiteralText))
            ELSE acc,
            Tail(pairs))

\* the non-empty strings among the literals of a list of elements
StringsOfElements(elems) == SelectSeq([i \in DOMAIN elems |-> literalFromNode(elems[i], LiteralText)], IsNonEmptyString)

\* C22: optionsFromNode and arrayFromNode take their elements from the first
\* candidate field, in priority order, whose value is an array, passing over a
\* candidate that is present but not an array; optionsFromNode skips every pair
\* whose key does not resolve to a non-empty string and sets options[key] for
\* every other pair.
C22_FirstArrayCandidate ==
    /\ (op = "arrayFromNode") =>
          ret = Arr(StringsOfElements(FirstArrayField(arg, <<<<"e","l","e","m","e","n","t","s">>, <<"a","r","g","s">>, <<"a","r","g","u","m","e","n","t","s">>, <<"i","t","e","m","s">>, <<"c","o","n","t","e","n","t","s">>, <<"p","a","r","t","s">>>>)))
    /\ (op = "optionsFromNode") =>
          ret = OptionsOfPairs(Obj(<<>>), FirstArrayField(arg, <<<<"e","l","e","m","e","n","t","s">>, <<"a","s","s","o","c","s">>, <<"a","r","g","u","m","e","n","t","s">>, <<"p","a","i","r","s">>>>))


\* a taggable node: a record with a string under type or kind
Taggable(json) == isRecord(json) /\ (IsString(Get(json, <<"t","y","p","e">>)) \/ IsString(Get(json, <<"k","i","n","d">>)))

\* a node whose tag (its type when that is a string, its kind otherwise) is a
\* non-empty string
NamedNode(json) ==
    /\ isRecord(json)
    /\ IF IsString(Get(json, <<"t","y","p","e">>)) THEN Get(json, <<"t","y","p","e">>).s # <<>>
       ELSE IsString(Get(json, <<"k","i","n","d">>)) /\ Get(json, <<"k","i","n","d">>).s # <<>>

\* the nodes held in one field value: the elements of an array, a nested object
HeldIn(value) ==
    IF IsArray(value) THEN {toJsonNode(value.a[i]) : i \in DOMAIN value.a}
    ELSE IF value.t = "object" THEN {toJsonNode(value)}
    ELSE {}

\* the nodes held in the array-valued and object-valued fields of a node
HeldNodes(json) ==
    IF json.t = "object" THEN UNION {HeldIn(json.o[k][2]) : k \in DOMAIN json.o} ELSE {}

RECURSIVE TaggableCount(_)
\* the number of taggable nodes of a tree, the root included
TaggableCount(v) ==
    LET json == toJsonNode(v)
        below == IF json.t = "object" THEN [k \in DOMAIN json.o |-> json.o[k][2]] ELSE IF json.t = "array" THEN json.a ELSE <<>>
        Sum[k \in 0..Len(below)] == IF k = 0 THEN 0 ELSE Sum[k - 1] + TaggableCount(below[k])
    IN  (IF Taggable(json) THEN 1 ELSE 0) + Sum[Len(below)]

\* the calls of the visitor are a preorder over nodes accepted by Dispatched:
\* only such nodes, the root first, each call's node held in its parent, a
\* visited parent before its child, every such node held in a visited node
\* visited after it with that node as parent, and no more calls than nodes
PreorderOver(calls, root, Dispatched(_)) ==
    /\ \A i \in DOMAIN calls : Dispatched(calls[i][1])
    /\ Len(calls) <= TaggableCount(root)
    /\ Dispatched(toJsonNode(root)) => calls # <<>> /\ calls[1] = <<toJsonNode(root), Null>>
    /\ \A i \in DOMAIN calls :
          IF calls[i][2] = Null THEN i = 1 /\ calls[i][1] = toJsonNode(root)
          ELSE /\ calls[i][1] \in HeldNodes(calls[i][2])
               /\ Dispatched(calls[i][2]) => \E j \in 1..(i - 1) : calls[j][1] = calls[i][2]
    /\ \A j \in DOMAIN calls : \A c \in HeldNodes(calls[j][1]) :
          Dispatched(c) => \E i \in (j + 1)..Len(calls) : calls[i] = <<c, calls[j][1]>>

\* C23 (as claimed): visitPrismAst is a depth-first preorder over the taggable
\* nodes (a string under type or kind): only they are visited, each at most
\* once, a node before the nodes below it, and every taggable node held in an
\* array-valued or object-valued field of a visited node is visited with that
\* node as parent.
C23_PreorderOverTaggable ==
    (op = "visitPrismAst") => PreorderOver(ret, arg, Taggable)

\* C23 (amended): visitPrismAst is a depth-first preorder over the nodes whose
\* tag is a non-empty string: only they are visited, each at most once, a node
\* before the nodes below it, and every such node held in an array-valued or
\* object-valued field of a visited node is visited with that node as parent.
C23_PreorderOverNamed ==
    (op = "visitPrismAst") => PreorderOver(ret, arg, NamedNode)

\* a root with a type, holding an untagged inner node whose array holds a node
\* that materializes on demand and a node with a kind: all four visited in preorder
C23_Witness ==
    /\ op = "visitPrismAst"
    /\ Len(ret) = 4
    /\ ret[1] = <<arg, Null>>
    /\ ret[2][1] = Obj(<< <<<<"t","y","p","e">>, Str(<<"j">>)>> >>) /\ ~Taggable(ret[2][2])
    /\ ret[3][1] = Obj(<< <<<<"k","i","n","d">>, Str(<<"k">>)>> >>) /\ ret[3][2] = ret[2][2]
    /\ ret[4] = <<Obj(<< <<<<"t","y","p","e">>, Str(<<"c","a","l","l">>)>> >>), arg>>


\* the options written in the trailing arguments of a declaration, a later
\* argument overwriting the key of an earlier one; the values as the backend
\* resolves them
MergedOptions(trailing, Resolved(_)) ==
    LET Merge[i \in 0..Len(trailing)] ==
            IF i = 0 THEN Obj(<<>>)
            ELSE MergeHash(Merge[i - 1], [k \in DOMAIN trailing[i].options |-> <<trailing[i].options[k][1], Resolved(trailing[i].options[k][2])>>])
    IN  Merge[Len(trailing)]

\* a symbol value is resolved to its name by both backends
ResolvedValue(v) == IF v.t = "symbol" THEN Str(v.s) ELSE v

\* C24: the options of a column declared with several trailing argument nodes
\* are the shallow merge of the options of all of them in encounter order, a
\* later node overwriting a key of an earlier one, in the primary extraction
\* and in the fallback script alike.
C24_TrailingOptionsMerged ==
    /\ (op = "createColumnsFromBlock") =>
          Len(ret) = 1 /\ ret[1].options = MergedOptions(arg.trailing, ResolvedValue)
    /\ (op = "process_column") =>
          Len(ret) = 1 /\ Get(ret[1], <<"o","p","t","i","o","n","s">>) = MergedOptions(arg.trailing, ResolvedValue)


\* the statement is a column declaration: a call on a receiver whose first
\* argument is a string, or a timestamps call
IsColumnDeclaration(stmt) ==
    \/ stmt.form \in {"recv", "paren"} /\ stmt.name # Undefined /\ stmt.name.t = "string"
    \/ IsTimestampsCall(stmt)

\* C25: inside a create_table block only a receiver-qualified call whose first
\* argument resolves to a string, or a timestamps call, produces a column; every
\* other statement adds no column and no diagnostic and leaves the columns of
\* the surrounding statements as they are.
C25_OnlyDeclarationsAddColumns ==
    (op = "parseRailsSchema" /\ arg.provider.outcome = "ok" /\ IsOneTable(arg.schema)) =>
        /\ Len(ret.tables) = 1
        /\ ret.tables[1].columns = ExtractedColumns(SelectSeq(arg.schema[1].statements, IsColumnDeclaration))
        /\ ret.diagnostics = ParsedItems(OneTable(SelectSeq(arg.schema[1].statements, IsColumnDeclaration))).diagnostics


\* the column at an address as a value: its name, its type and options.null
ColumnAt(heap, address) == <<heap[address].name, heap[address].type, heap[heap[address].options].null>>

\* C26: the timestamps columns of every table are fresh copies of
\* TIMESTAMP_COLUMNS: whatever the callers write to a column or to its options,
\* the constant keeps its value, and every column that was not written to, in
\* the same result or in a later one, is created_at or updated_at of type
\* datetime with null false.
C26_TimestampsNotShared ==
    (op \in {"parseRailsSchema", "write column", "write options"}) =>
        /\ SubSeq(ret.heap, 1, 4) = TIMESTAMP_COLUMNS_Cells
        /\ \A t \in DOMAIN ret.tables : \A c \in 1..2 :
              ret.tables[t].columns[c] \notin ret.written =>
                 ColumnAt(ret.heap, ret.tables[t].columns[c]) = ColumnAt(TIMESTAMP_COLUMNS_Cells, 2 * c - 1)

\* the options of a column of the first table of a result of two tables were
\* written, and a later call returned a table
C26_Witness ==
    /\ op = "parseRailsSchema"
    /\ Len(ret.tables) = 3
    /\ ret.tables[2].parse = 1 /\ ret.tables[3].parse = 2 /\ ret.tables[3].writesBefore = 2
    /\ ret.written = {ret.tables[1].columns[1]}
    /\ ColumnAt(ret.heap, ret.tables[1].columns[1]) = <<<<"c","h","a","n","g","e","d">>, <<"d","a","t","e","t","i","m","e">>, TRUE>>


\* a processed schema file has an error: an entry in diagnostics.errors, or a
\* read or a generation that threw
HasFileError(file) == file.kind = "unreadable" \/ file.errors # <<>>

\* C27: the tool writes documents only when no processed schema file has an
\* error: if any has one, no document of any schema file is written and the
\* exit code is 1; warnings alone never prevent the documents from being
\* written.
C27_ErrorsBlockWrites ==
    (op = "main") =>
        /\ (\E i \in DOMAIN ret.processed : HasFileError(ret.processed[i])) =>
              ret.written = <<>> /\ ret.exitCode = 1
        /\ (/\ \A i \in DOMAIN ret.processed : ~HasFileError(ret.processed[i])
            /\ ~arg.dryRun /\ (arg.force \/ ~arg.outputExists)) =>
              \A i \in DOMAIN ret.processed : \A k \in DOMAIN ret.processed[i].documents :
                 \E w \in DOMAIN ret.written : ret.written[w] = <<i, ret.processed[i].documents[k]>>

\* a file with a warning only and a file with an error were processed: nothing
\* was written and the exit code is 1
C27_Witness ==
    /\ op = "main"
    /\ Len(ret.processed) = 2
    /\ ret.processed[1].kind = "warned" /\ ret.processed[2].kind = "failed"
    /\ ~arg.dryRun /\ ~arg.outputExists
    /\ ret.written = <<>> /\ ret.exitCode = 1

\* C28: with at least one --schema entry on the command line the tool
\* processes only files given explicitly and never runs the automatic
\* discovery, also when some or all of the given files do not exist.
C28_ExplicitSchemasOnly ==
    (op = "main" /\ arg.rootExists /\ arg.schema # <<>>) =>
        /\ ~ret.discovery
        /\ \A i \in DOMAIN ret.processed : \E k \in DOMAIN arg.schema : arg.schema[k] = ret.processed[i]


\* the names of the documents of a result, enums first
DocumentNames(result) == [i \in DOMAIN result.enums |-> result.enums[i].name] \o [i \in DOMAIN result.models |-> result.models[i].name]

\* C29: within one GenerationResult the document names are pairwise distinct
\* across models and enums together: two distinct tables, two distinct enums,
\* or a table and an enum of one schema never get the same <className>.tsp.
C29_DocumentNamesDistinct ==
    (op = "generateTypespecFromRailsSchema" /\ ~Threw(ret)) =>
        \A i, k \in DOMAIN DocumentNames(ret) : i # k => DocumentNames(ret)[i] # DocumentNames(ret)[k]

====
